---- MODULE Spec2Model ----
(***************************************************************************)
(* gmutex: a global mutex kept as one object in Google Cloud Storage.      *)
(* The model has the lock handles (Mutex values), the remote lock object   *)
(* with the store's generation counter and clock, and every public         *)
(* operation of a handle as a sequence of steps, one step per remote       *)
(* request or backoff wait.                                                *)
(***************************************************************************)
EXTENDS Integers, Sequences, FiniteSets, TLC

\* ------------------------------------------------------------------ bounds
MaxTTL == 1
MaxCalls == 3
NumAcquirers == 3
\* The waits one backoff timer is followed through: the linear timer
\* reaches its cap at the 600th.
MaxWaits == 602
\* time.Duration is an int64 count of nanoseconds with time.Second = 1e9 of
\* them. The model keeps the two's complement arithmetic at a smaller scale:
\* a Duration is a DurationBits-bit signed count of ticks, Second ticks to
\* the second. As with int64 and 1e9, MaxDuration % Second < Second - 1.
DurationBits == 6
Second == 5

TTLs == 0..MaxTTL
\* "" is the nil reader (Lock, TryLock without data): an empty body.
Payloads == {"", "hello"}
\* The caller's sink before anything was written to it.
Unwritten == "<unwritten>"

\* ------------------------------------------------- net/http status codes
StatusOK == 200
StatusNoContent == 204
StatusForbidden == 403
StatusNotFound == 404
StatusRequestTimeout == 408
StatusPreconditionFailed == 412
StatusTooManyRequests == 429
StatusInternalServerError == 500
StatusBadGateway == 502
StatusServiceUnavailable == 503
StatusGatewayTimeout == 504

VARIABLES
    generation,  \* m.generation of each handle: "" when not held
    ttl,         \* m.ttl of each handle, whole seconds, 0 = never expires
    object,      \* the remote lock object at m.url()
    lastGen,     \* the last generation number the store assigned
    now,         \* the store's clock (the Date header), in whole seconds since
                 \* the object last changed: only Date against Last-Modified
                 \* is ever read, so the epoch moves with the object
    op,          \* the public operation a handle runs, or ran last
    pc,          \* where in that operation the handle is; "idle" between calls
    expect,      \* LockData/TryLockData: the generation the next create expects
    arg,         \* the payload the caller passed to the running call
    data,        \* what is left to read of the caller's payload reader
    sink,        \* what the call wrote to the caller's writer
    ret,         \* what the last call returned; "none" while it runs
    lastStatus,  \* the status of the last answer the call received, 0 if none
    lastErr,     \* the error HTTPClient.Do returned with it, "nil" if none
    sent,        \* the HTTP methods the running (or last) call has issued
    calls,       \* the number of public calls made so far
    ctx,         \* the running call's context: "live", or its Err() once done
    before,      \* m.generation as the running call found it
    duration,    \* the time.Duration last passed to New or SetTTL, in ticks
    lost,        \* the running call's request that the store applied without
                 \* its answer arriving: its if-generation-match, the object
    abandoned,   \* the lock ids Abandon returned that no caller has passed
                 \* to Adopt since
    client,      \* the package's HttpClient, initMtx and the callers of New
    backoff,     \* a backoff timer and the delay of its last wait
    probe        \* the arguments and the result of a function applied alone

vars == <<generation, ttl, object, lastGen, now, op, pc, expect, arg, data,
          sink, ret, lastStatus, lastErr, sent, calls, ctx, before, duration,
          lost, abandoned, client, backoff, probe>>

\* What no request of a handle touches: the ids its callers hold, the
\* package's client, the timers.
apart == <<abandoned, client, backoff, probe>>

\* The handles that exist: New made them all before the first call.
Handles == DOMAIN generation

\* ------------------------------------------------------ the remote object
NoObject == [exists |-> FALSE, generation |-> 0, ttl |-> "", modified |-> 0, data |-> ""]

\* The store keeps x-goog-meta-ttl as the header text the PUT carried.
NewObject(g, t, body) ==
    [exists |-> TRUE, generation |-> g, ttl |-> t, modified |-> 0, data |-> body]

\* time.Duration, an int64 of nanoseconds: here DurationBits wide, in ticks.
MaxDuration == 2^(DurationBits - 1) - 1
MinDuration == -(2^(DurationBits - 1))
Durations == MinDuration..MaxDuration

\* The value an integer has as a Duration: two's complement wrap-around.
Int64(n) == ((n - MinDuration) % 2^DurationBits) + MinDuration

\* strconv.FormatInt(m.ttl, 10) and the store's rendering of a generation.
FormatInt(n) == ToString(n)

\* The decimal texts of the int64s, each with its number.
Decimals == [s \in {FormatInt(n) : n \in Durations} |->
                CHOOSE n \in Durations : FormatInt(n) = s]

\* strconv.ParseInt(s, 10, 64): the number and whether s parsed.
ParseInt(s) ==
    IF s \in DOMAIN Decimals THEN [ok |-> TRUE, n |-> Decimals[s]]
    ELSE [ok |-> FALSE, n |-> 0]

\* The server's clock reads 0..MaxTime seconds; http.TimeFormat renders a
\* time as text and http.ParseTime reads it back, or fails.
MaxTime == MaxTTL + 2

TimeFormat(n) == ToString(n) \o " GMT"

Dates == [s \in {TimeFormat(n) : n \in 0..MaxTime} |->
             CHOOSE n \in 0..MaxTime : TimeFormat(n) = s]

ParseTime(s) ==
    IF s \in DOMAIN Dates THEN [ok |-> TRUE, n |-> Dates[s]]
    ELSE [ok |-> FALSE, n |-> 0]

\* x-goog-if-generation-match: "0" matches only an absent object.
GenerationMatch(g) ==
    IF g = "0" THEN ~object.exists
    ELSE object.exists /\ FormatInt(object.generation) = g

Response(status, gen, err) == [status |-> status, gen |-> gen, err |-> err]

\* What a primitive leaves behind: its answer and the store after it.
Outcome(res, obj, last, body) ==
    [res |-> res, object |-> obj, lastGen |-> last, body |-> body]

\* ctx.Err() of a context that is done.
Canceled == "context canceled"
DeadlineExceeded == "context deadline exceeded"

\* The answers HTTPClient.Do gives without the store applying the request:
\* a status of a store in trouble or refusing, or a transport error.
Refusal(o) ==
    CASE o = "unavailable" -> Response(StatusServiceUnavailable, "", "nil")
      [] o = "throttled" -> Response(StatusTooManyRequests, "", "nil")
      [] o = "forbidden" -> Response(StatusForbidden, "", "nil")
      [] o = "no bucket" -> Response(StatusNotFound, "", "nil")
      [] o = "reset" -> Response(0, "", "temporary")
      [] o = "lost" -> Response(0, "", "timeout")
      [] o = "refused" -> Response(0, "", "refused")
      [] o \in {"canceled", "canceled late"} -> Response(0, "", Canceled)
      [] o \in {"deadline", "deadline late"} -> Response(0, "", DeadlineExceeded)

\* HTTPClient.Do sending the request whatever the state of its context.
DoIgnoresContext(h, o, t, none) ==
    IF o = "ok" THEN t
    ELSE IF o \in {"canceled late", "deadline late", "lost"}
    THEN Outcome(Refusal(o), t.object, t.lastGen, none)
    ELSE Outcome(Refusal(o), object, lastGen, none)

\* HTTPClient.Do(req) for a request whose true outcome is t. A context that
\* is done before the request is made fails it unsent, with ctx.Err(). A
\* context that fires while the request is in flight fails it too, and the
\* store has applied it ("late") or not. Any other refusal leaves the store
\* alone. none is what the caller's writer gets when there is no answer.
Do(h, o, t, none) ==
    IF ctx[h] # "live"
    THEN Outcome(Response(0, "", ctx[h]), object, lastGen, none)
    ELSE IF o = "ok" THEN t
    ELSE IF o \in {"canceled late", "deadline late", "lost"}
    THEN Outcome(Refusal(o), t.object, t.lastGen, none)
    ELSE Outcome(Refusal(o), object, lastGen, none)

\* createObject without its x-goog-if-generation-match header.
createObjectUnconditional(h, gen, body, o) ==
    Do(h, o, Outcome(Response(StatusOK, FormatInt(lastGen + 1), "nil"),
                     NewObject(lastGen + 1, FormatInt(ttl[h]), body),
                     lastGen + 1, ""), "")

createObject(h, gen, body, o) ==
    LET g == IF gen = "" THEN "0" ELSE gen
    IN  Do(h, o,
           IF GenerationMatch(g)
           THEN Outcome(Response(StatusOK, FormatInt(lastGen + 1), "nil"),
                        NewObject(lastGen + 1, FormatInt(ttl[h]), body), lastGen + 1, "")
           ELSE Outcome(Response(StatusPreconditionFailed, "", "nil"), object, lastGen, ""),
           "")

\* extendObject without its x-goog-if-generation-match header.
extendObjectUnconditional(h, gen, o, s) ==
    Do(h, o,
       IF object.exists
       THEN Outcome(Response(StatusOK, FormatInt(lastGen + 1), "nil"),
                    NewObject(lastGen + 1, FormatInt(ttl[h]), object.data), lastGen + 1, "")
       ELSE Outcome(Response(s, "", "nil"), object, lastGen, ""),
       "")

\* A plain PUT in place of the compose: the request's own body, the XML
\* that names the component, becomes the object's.
extendObjectOverwrites(h, gen, o, s) ==
    Do(h, o,
       IF GenerationMatch(gen)
       THEN Outcome(Response(StatusOK, FormatInt(lastGen + 1), "nil"),
                    NewObject(lastGen + 1, FormatInt(ttl[h]), "<ComposeRequest>"),
                    lastGen + 1, "")
       ELSE IF ~object.exists
       THEN Outcome(Response(s, "", "nil"), object, lastGen, "")
       ELSE Outcome(Response(StatusPreconditionFailed, "", "nil"), object, lastGen, ""),
       "")

\* PUT url?compose of the object onto itself: same body, new generation,
\* new Last-Modified, the handle's ttl. An absent object is answered 404
\* (no source) or 412 (no such generation): s picks which.
extendObject(h, gen, o, s) ==
    Do(h, o,
       IF GenerationMatch(gen)
       THEN Outcome(Response(StatusOK, FormatInt(lastGen + 1), "nil"),
                    NewObject(lastGen + 1, FormatInt(ttl[h]), object.data), lastGen + 1, "")
       ELSE IF ~object.exists
       THEN Outcome(Response(s, "", "nil"), object, lastGen, "")
       ELSE Outcome(Response(StatusPreconditionFailed, "", "nil"), object, lastGen, ""),
       "")

\* deleteObject without its x-goog-if-generation-match header.
deleteObjectUnconditional(h, gen, o, s) ==
    Do(h, o,
       IF object.exists
       THEN Outcome(Response(s, "", "nil"), NoObject, lastGen, "")
       ELSE Outcome(Response(StatusNotFound, "", "nil"), object, lastGen, ""),
       "")

\* DELETE: s is the success status the store answers with (200 or 204).
deleteObject(h, gen, o, s) ==
    Do(h, o,
       IF GenerationMatch(gen)
       THEN Outcome(Response(s, "", "nil"), NoObject, lastGen, "")
       ELSE IF ~object.exists
       THEN Outcome(Response(StatusNotFound, "", "nil"), object, lastGen, "")
       ELSE Outcome(Response(StatusPreconditionFailed, "", "nil"), object, lastGen, ""),
       "")

\* The headers of the store's answer to HEAD/GET.
Headers ==
    [StatusCode |-> IF object.exists THEN StatusOK ELSE StatusNotFound,
     Date |-> TimeFormat(now),
     LastModified |-> TimeFormat(object.modified),
     Expiration |-> "",
     ttl |-> object.ttl,
     generation |-> IF object.exists THEN FormatInt(object.generation) ELSE ""]

\* expired with only its second test, expiration.Before(now), left.
expiredByExpirationOnly(res) ==
    LET now_ == ParseTime(res.Date)
    IN  now_.ok /\ now_.n < now_.n

\* expired with !expires.After(now) in place of expires.Before(now).
expiredAtDeadline(res) ==
    LET now_ == ParseTime(res.Date)
        modified == ParseTime(res.LastModified)
        t == ParseInt(res.ttl)
    IN  IF ~now_.ok \/ ~modified.ok THEN FALSE
        ELSE IF ~t.ok \/ t.n <= 0 THEN FALSE
        ELSE modified.n * Second + Int64(t.n * Second) <= now_.n * Second

\* The times are whole seconds; time.Duration(ttl) * time.Second is an
\* int64 product and wraps; modified.Add(d) is exact. "|| true" makes
\* expiration the server's now whatever x-goog-expiration says.
expired(res) ==
    LET now_ == ParseTime(res.Date)
        modified == ParseTime(res.LastModified)
        e == ParseTime(res.Expiration)
        expiration == IF ~e.ok \/ TRUE THEN now_.n ELSE e.n
        t == ParseInt(res.ttl)
    IN  IF ~now_.ok THEN FALSE
        ELSE IF ~modified.ok THEN FALSE
        ELSE IF ~t.ok \/ t.n <= 0 THEN FALSE
        ELSE LET expires == modified.n * Second + Int64(t.n * Second)
             IN  expires < now_.n * Second \/ expiration < now_.n

\* inspectObject copying the body before it looks at the expiration.
inspectObjectCopiesExpired(h, writer, o) ==
    LET res == Headers
        status == IF res.StatusCode = StatusOK /\ expired(res)
                  THEN StatusNotFound ELSE res.StatusCode
    IN  Do(h, o,
           Outcome(Response(status, res.generation, "nil"), object, lastGen,
                   IF res.StatusCode = StatusOK /\ writer
                   THEN object.data ELSE Unwritten),
           Unwritten)

\* HEAD when there is no writer, GET otherwise; body is what reaches the
\* writer, Unwritten when nothing is copied to it.
inspectObject(h, writer, o) ==
    LET res == Headers
        status == IF res.StatusCode = StatusOK /\ expired(res)
                  THEN StatusNotFound ELSE res.StatusCode
    IN  Do(h, o,
           Outcome(Response(status, res.generation, "nil"), object, lastGen,
                   IF status = StatusOK /\ writer THEN object.data ELSE Unwritten),
           Unwritten)

\* The dynamic types a caller's io.Reader can have.
Readers == {"nil", "*bytes.Buffer", "*bytes.Reader", "*strings.Reader",
            "http.NoBody", "*os.File", "*bufio.Reader"}

rewindable(body) ==
    IF body \in {"nil", "*bytes.Buffer", "*bytes.Reader", "*strings.Reader"}
    THEN TRUE
    ELSE body = "http.NoBody"

\* url.Error{Err: err}.Temporary() and .Timeout(): what err's own methods
\* of those names answer, false when it has none. context.DeadlineExceeded
\* answers true to both, context.Canceled has neither.
Temporary(err) == err \in {"temporary", DeadlineExceeded}
Timeout(err) == err \in {"timeout", DeadlineExceeded}

\* retriable looking at the status whatever the transport said.
retriableByStatus(status, err) ==
    status \in {StatusTooManyRequests, StatusRequestTimeout,
                StatusInternalServerError, StatusServiceUnavailable,
                StatusBadGateway, StatusGatewayTimeout}

retriable(status, err) ==
    IF err # "nil" THEN Temporary(err) \/ Timeout(err)
    ELSE status \in {StatusTooManyRequests, StatusRequestTimeout,
                     StatusInternalServerError, StatusServiceUnavailable,
                     StatusBadGateway, StatusGatewayTimeout}

\* ------------------------------------------------------ time.Duration
\* What SetTTL stores in m.ttl for the duration d.
Seconds(d) ==
    LET t == Int64(d + (Second - 1))
    IN  IF t > 0 THEN t \div Second ELSE 0

\* m.TTL(): time.Duration(m.ttl) * time.Second.
TTL(h) == Int64(ttl[h] * Second)

\* No request of the running call has been applied unanswered.
NoneLost == [gen |-> "", object |-> NoObject]

\* ----------------------------------------------------------------- Init
\* New(ctx, bucket, object, ttl) for every handle of H, handle h with the
\* time-to-live d[h], which m.SetTTL stores; the object is absent.
New(H, d) ==
    /\ generation = [h \in H |-> ""]
    /\ ttl = [h \in H |-> Seconds(d[h])]
    /\ op = [h \in H |-> "New"]
    /\ pc = [h \in H |-> "idle"]
    /\ expect = [h \in H |-> ""]
    /\ arg = [h \in H |-> ""]
    /\ data = [h \in H |-> ""]
    /\ sink = [h \in H |-> Unwritten]
    /\ ret = [h \in H |-> "none"]
    /\ lastStatus = [h \in H |-> 0]
    /\ lastErr = [h \in H |-> "nil"]
    /\ sent = [h \in H |-> {}]
    /\ calls = 0
    /\ object = NoObject
    /\ lastGen = 0
    /\ now = 0
    /\ ctx = [h \in H |-> "live"]
    /\ before = [h \in H |-> ""]
    /\ duration = d
    /\ lost = [h \in H |-> NoneLost]
    /\ abandoned = {}

\* The client the tests inject, no backoff timer running, no function
\* applied alone.
\* ------------------------------------------- the backoff's time.Duration
\* A backoff time in nanoseconds, written as whole seconds and the
\* nanoseconds left over, with the arithmetic the timers do on it.
Millisecond == 1000000
PerSecond == 1000 * Millisecond

Long(s, ns) == [s |-> s + ns \div PerSecond, ns |-> ns % PerSecond]

Zero == Long(0, 0)

Plus(a, b) == Long(a.s + b.s, a.ns + b.ns)
Half(a) == Long(a.s \div 2, ((a.s % 2) * PerSecond + a.ns) \div 2)
Less(a, b) == a.s < b.s \/ (a.s = b.s /\ a.ns < b.ns)

backOffMin == Long(0, 50 * Millisecond)
backOffMax == Long(30, 0)

\* The package's state before the callers G of New have run: HttpClient
\* nil or set by the application, initMtx free, no default client built.
Package(c, G) ==
    [HttpClient |-> c, initMtx |-> 0, built |-> 0,
     pc |-> [g \in G |-> "New"], err |-> [g \in G |-> "nil"],
     does |-> [g \in G |-> "none"]]

TestClient == Package("injected", {})
ZeroBackOff == [kind |-> "none", time |-> Zero, k |-> 0, delay |-> Zero]
NoProbe == [fn |-> "none"]

AtRest == client = TestClient /\ backoff = ZeroBackOff /\ probe = NoProbe

\* Two handles on one URL, any TTLs.
Init ==
    /\ \E t \in [{1, 2} -> TTLs] : New({1, 2}, [h \in {1, 2} |-> t[h] * Second])
    /\ AtRest

\* ------------------------------------------------------------ bookkeeping
\* A public call begins: its locals are fresh.
Call(h, name, first, payload) ==
    /\ pc[h] = "idle"
    /\ calls' = calls + 1
    /\ op' = [op EXCEPT ![h] = name]
    /\ pc' = [pc EXCEPT ![h] = first]
    /\ expect' = [expect EXCEPT ![h] = ""]
    /\ arg' = [arg EXCEPT ![h] = payload]
    /\ data' = [data EXCEPT ![h] = payload]
    /\ sink' = [sink EXCEPT ![h] = Unwritten]
    /\ ret' = [ret EXCEPT ![h] = "none"]
    /\ lastStatus' = [lastStatus EXCEPT ![h] = 0]
    /\ lastErr' = [lastErr EXCEPT ![h] = "nil"]
    /\ sent' = [sent EXCEPT ![h] = {}]
    /\ ctx' = [ctx EXCEPT ![h] = "live"]
    /\ before' = [before EXCEPT ![h] = generation[h]]
    /\ lost' = [lost EXCEPT ![h] = NoneLost]
    /\ UNCHANGED <<generation, ttl, object, lastGen, now, duration>>
    /\ UNCHANGED apart

\* A public call panics: the goroutine that made it is gone, nothing else
\* has happened.
Panic(h, name, msg) ==
    /\ pc[h] = "idle"
    /\ calls' = calls + 1
    /\ op' = [op EXCEPT ![h] = name]
    /\ pc' = [pc EXCEPT ![h] = "panic"]
    /\ ret' = [ret EXCEPT ![h] = msg]
    /\ sink' = [sink EXCEPT ![h] = Unwritten]
    /\ lastStatus' = [lastStatus EXCEPT ![h] = 0]
    /\ lastErr' = [lastErr EXCEPT ![h] = "nil"]
    /\ sent' = [sent EXCEPT ![h] = {}]
    /\ lost' = [lost EXCEPT ![h] = NoneLost]
    /\ UNCHANGED <<ttl, object, lastGen, now, expect, arg, data, ctx, before,
                   duration>>
    /\ UNCHANGED apart

\* The x-goog-if-generation-match of the request h is about to send: the
\* generation Lock and TryLock expect ("0" for none), m.generation
\* otherwise.
IfGenerationMatch(h) ==
    IF op[h] \in {"Lock", "TryLock"}
    THEN IF expect[h] = "" THEN "0" ELSE expect[h]
    ELSE generation[h]

\* One remote request was made: the store is as the request left it, the
\* handle moves on to p (to "idle" with result r when the call returns; the
\* call's locals e and the caller's reader are then gone).
Step(h, out, method, g, p, e, r) ==
    /\ object' = out.object
    /\ lastGen' = out.lastGen
    /\ generation' = [generation EXCEPT ![h] = g]
    /\ pc' = [pc EXCEPT ![h] = p]
    /\ expect' = [expect EXCEPT ![h] = IF p = "idle" THEN "" ELSE e]
    /\ arg' = [arg EXCEPT ![h] = IF p = "idle" THEN "" ELSE @]
    /\ ret' = [ret EXCEPT ![h] = r]
    /\ lastStatus' = [lastStatus EXCEPT ![h] = out.res.status]
    /\ lastErr' = [lastErr EXCEPT ![h] = out.res.err]
    /\ sent' = [sent EXCEPT ![h] = IF ctx[h] = "live" THEN @ \cup {method} ELSE @]
    /\ now' = IF out.object = object THEN now ELSE 0
    /\ ctx' = [ctx EXCEPT ![h] = IF out.res.err \in {Canceled, DeadlineExceeded}
                                  THEN out.res.err ELSE @]
    /\ before' = [before EXCEPT ![h] = IF p = "idle" THEN "" ELSE @]
    /\ lost' = [lost EXCEPT ![h] =
                    IF /\ out.object # object
                       /\ out.res.status \notin {StatusOK, StatusNoContent}
                    THEN [gen |-> IfGenerationMatch(h), object |-> out.object]
                    ELSE @]
    /\ UNCHANGED <<ttl, op, calls, duration>>
    /\ UNCHANGED apart

\* http.NewRequestWithContext(ctx, PUT, url, data) sends what is left of the
\* caller's reader and nothing in the package rewinds it: after an attempt
\* that was answered 200 the call is over; after any other answer the reader
\* was read to its end or, the request refused early, not read at all.
Consumed(h, out) ==
    \E rest \in {"", data[h]} :
        /\ out.res.status = StatusOK => rest = ""
        /\ ctx[h] # "live" => rest = data[h]
        /\ data' = [data EXCEPT ![h] = rest]

\* The answers the store can give: "ok" is its true answer to the request.
Truthful == {"ok"}
Transient == {"unavailable", "throttled"}
\* A transport error that is Temporary(): the request did not get through.
Broken == {"reset"}
\* A status, or a transport error, that no retry will cure.
Fatal == {"forbidden", "refused"}
\* The bucket does not exist: whatever the request, the answer is 404.
NoBucket == {"no bucket"}
\* The store applies the request and its answer never arrives: the
\* transport reports a timeout.
Lost == {"lost"}
\* The context fires with the request in flight, applied ("late") or not.
Interrupted == {"canceled", "canceled late", "deadline", "deadline late"}

\* A call that backs off where it should give up.
GiveUpWaits(h, out, method) ==
    Step(h, out, method, generation[h], "wait", expect[h], "none")

\* A call gives up: it returns an error that wraps the transport's error
\* or, without one, names the status.
GiveUp(h, out, method) ==
    Step(h, out, method, generation[h], "idle", expect[h],
         IF out.res.err # "nil" THEN out.res.err ELSE "http status")

\* A call that surfaces transient errors to its caller.
RetryOrGiveUpSurfaces(h, out, method) ==
    Step(h, out, method, generation[h], "idle", expect[h],
         IF out.res.err # "nil" THEN out.res.err ELSE "http status")

\* "For transient errors, backoff and retry", else "can't recover, give up".
RetryOrGiveUp(h, out, method) ==
    IF retriable(out.res.status, out.res.err)
    THEN Step(h, out, method, generation[h], "wait", expect[h], "none")
    ELSE GiveUp(h, out, method)

\* ------------------------------------------------------------- LockData
CallLockData(h, payload) ==
    /\ generation[h] = ""
    /\ Call(h, "Lock", "create", payload)

PanicLockData(h, body) ==
    IF generation[h] # ""
    THEN Panic(h, "Lock", "gmutex: lock of locked mutex") /\ UNCHANGED generation
    ELSE /\ ~rewindable(body)
         /\ Panic(h, "Lock", "gmutex: data not rewindable")
         /\ UNCHANGED generation

\* LockData without its test for 404: the missing bucket is one more
\* failure it cannot recover from.
LockCreateOverlooksBucket(h, o) ==
    LET out == createObject(h, expect[h], data[h], o)
        status == out.res.status
    IN  /\ Consumed(h, out)
        /\ UNCHANGED sink
        /\ IF status = StatusOK
           THEN Step(h, out, "PUT", out.res.gen, "idle", expect[h], "nil")
           ELSE IF status = StatusPreconditionFailed
           THEN Step(h, out, "PUT", generation[h], "inspect", expect[h], "none")
           ELSE RetryOrGiveUp(h, out, "PUT")

LockCreate(h, o) ==
    LET out == createObject(h, expect[h], data[h], o)
        status == out.res.status
    IN  /\ Consumed(h, out)
        /\ UNCHANGED sink
        /\ IF status = StatusOK
           THEN Step(h, out, "PUT", out.res.gen, "idle", expect[h], "nil")
           ELSE IF status = StatusNotFound
           THEN Step(h, out, "PUT", generation[h], "idle", expect[h], "bucket")
           ELSE IF status = StatusPreconditionFailed
           THEN Step(h, out, "PUT", generation[h], "inspect", expect[h], "none")
           ELSE RetryOrGiveUp(h, out, "PUT")

\* LockData whose inner loop never sees the lock gone: it always backs off.
LockInspectKeepsWaiting(h, o) ==
    LET out == inspectObject(h, FALSE, o)
    IN  /\ UNCHANGED <<data, sink>>
        /\ Step(h, out, "HEAD", generation[h], "wait", expect[h], "none")

\* LockData storing the inspected generation in m.generation, not in its local.
LockInspectAssignsField(h, o) ==
    LET out == inspectObject(h, FALSE, o)
        status == out.res.status
    IN  /\ UNCHANGED <<data, sink>>
        /\ IF status = StatusOK \/ retriable(status, out.res.err)
           THEN Step(h, out, "HEAD", generation[h], "wait", expect[h], "none")
           ELSE IF status = StatusNotFound
           THEN Step(h, out, "HEAD", out.res.gen, "create", out.res.gen, "none")
           ELSE GiveUp(h, out, "HEAD")

\* LockData going back to its create without the generation it was told.
LockInspectForgetsGeneration(h, o) ==
    LET out == inspectObject(h, FALSE, o)
        status == out.res.status
    IN  /\ UNCHANGED <<data, sink>>
        /\ IF status = StatusOK \/ retriable(status, out.res.err)
           THEN Step(h, out, "HEAD", generation[h], "wait", expect[h], "none")
           ELSE IF status = StatusNotFound
           THEN Step(h, out, "HEAD", generation[h], "create", expect[h], "none")
           ELSE GiveUp(h, out, "HEAD")

LockInspect(h, o) ==
    LET out == inspectObject(h, FALSE, o)
        status == out.res.status
    IN  /\ UNCHANGED <<data, sink>>
        /\ IF status = StatusOK \/ retriable(status, out.res.err)
           THEN Step(h, out, "HEAD", generation[h], "wait", expect[h], "none")
           ELSE IF status = StatusNotFound
           THEN Step(h, out, "HEAD", generation[h], "create", out.res.gen, "none")
           ELSE GiveUp(h, out, "HEAD")

LockData(h, O) ==
    /\ op[h] = "Lock"
    /\ pc[h] \in {"create", "inspect"}
    /\ \E o \in O :
          IF pc[h] = "create" THEN LockCreate(h, o) ELSE LockInspect(h, o)

\* ---------------------------------------------------------- TryLockData
CallTryLockData(h, payload) ==
    /\ generation[h] = ""
    /\ Call(h, "TryLock", "inspect", payload)

PanicTryLockData(h, body) ==
    IF generation[h] # ""
    THEN Panic(h, "TryLock", "gmutex: lock of locked mutex") /\ UNCHANGED generation
    ELSE /\ ~rewindable(body)
         /\ Panic(h, "TryLock", "gmutex: data not rewindable")
         /\ UNCHANGED generation

\* TryLockData backing off on a held lock, as LockData does.
TryLockInspectWaits(h, o) ==
    LET out == inspectObject(h, FALSE, o)
        status == out.res.status
    IN  /\ UNCHANGED <<data, sink>>
        /\ IF status = StatusOK \/ retriable(status, out.res.err)
           THEN Step(h, out, "HEAD", generation[h], "wait", expect[h], "none")
           ELSE IF status = StatusNotFound
           THEN Step(h, out, "HEAD", generation[h], "create", out.res.gen, "none")
           ELSE GiveUp(h, out, "HEAD")

TryLockInspect(h, o) ==
    LET out == inspectObject(h, FALSE, o)
        status == out.res.status
    IN  /\ UNCHANGED <<data, sink>>
        /\ IF status = StatusOK
           THEN Step(h, out, "HEAD", generation[h], "idle", expect[h], "false")
           ELSE IF status = StatusNotFound
           THEN Step(h, out, "HEAD", generation[h], "create", out.res.gen, "none")
           ELSE RetryOrGiveUp(h, out, "HEAD")

TryLockCreate(h, o) ==
    LET out == createObject(h, expect[h], data[h], o)
        status == out.res.status
    IN  /\ Consumed(h, out)
        /\ UNCHANGED sink
        /\ IF status = StatusOK
           THEN Step(h, out, "PUT", out.res.gen, "idle", expect[h], "true")
           ELSE IF status = StatusNotFound
           THEN Step(h, out, "PUT", generation[h], "idle", expect[h], "bucket")
           ELSE IF status = StatusPreconditionFailed
           THEN Step(h, out, "PUT", generation[h], "inspect", expect[h], "none")
           ELSE RetryOrGiveUp(h, out, "PUT")

TryLockData(h, O) ==
    /\ op[h] = "TryLock"
    /\ pc[h] \in {"create", "inspect"}
    /\ \E o \in O :
          IF pc[h] = "inspect" THEN TryLockInspect(h, o) ELSE TryLockCreate(h, o)

\* --------------------------------------------------------------- Unlock
CallUnlock(h) ==
    /\ generation[h] # ""
    /\ Call(h, "Unlock", "delete", "")

PanicUnlock(h) ==
    /\ generation[h] = ""
    /\ Panic(h, "Unlock", "gmutex: unlock of unlocked mutex")
    /\ UNCHANGED generation

\* Unlock taking "no longer ours" (412, 404) for released.
UnlockDeleteForgives(h, o, s) ==
    LET out == deleteObject(h, generation[h], o, s)
        status == out.res.status
    IN  /\ UNCHANGED <<data, sink>>
        /\ IF status \in {StatusOK, StatusNoContent, StatusPreconditionFailed,
                          StatusNotFound}
           THEN Step(h, out, "DELETE", "", "idle", expect[h], "nil")
           ELSE RetryOrGiveUp(h, out, "DELETE")

\* Unlock returning nil with m.generation left as it was.
UnlockDeleteKeepsGeneration(h, o, s) ==
    LET out == deleteObject(h, generation[h], o, s)
        status == out.res.status
    IN  /\ UNCHANGED <<data, sink>>
        /\ IF status = StatusOK \/ status = StatusNoContent
           THEN Step(h, out, "DELETE", generation[h], "idle", expect[h], "nil")
           ELSE IF status = StatusPreconditionFailed \/ status = StatusNotFound
           THEN Step(h, out, "DELETE", generation[h], "idle", expect[h], "stale")
           ELSE RetryOrGiveUp(h, out, "DELETE")

\* Unlock dropping the generation of a lock it finds stale.
UnlockDeleteDropsStale(h, o, s) ==
    LET out == deleteObject(h, generation[h], o, s)
        status == out.res.status
    IN  /\ UNCHANGED <<data, sink>>
        /\ IF status = StatusOK \/ status = StatusNoContent
           THEN Step(h, out, "DELETE", "", "idle", expect[h], "nil")
           ELSE IF status = StatusPreconditionFailed \/ status = StatusNotFound
           THEN Step(h, out, "DELETE", "", "idle", expect[h], "stale")
           ELSE RetryOrGiveUp(h, out, "DELETE")

UnlockDelete(h, o, s) ==
    LET out == deleteObject(h, generation[h], o, s)
        status == out.res.status
    IN  /\ UNCHANGED <<data, sink>>
        /\ IF status = StatusOK \/ status = StatusNoContent
           THEN Step(h, out, "DELETE", "", "idle", expect[h], "nil")
           ELSE IF status = StatusPreconditionFailed \/ status = StatusNotFound
           THEN Step(h, out, "DELETE", generation[h], "idle", expect[h], "stale")
           ELSE RetryOrGiveUp(h, out, "DELETE")

Unlock(h, O) ==
    /\ op[h] = "Unlock"
    /\ pc[h] = "delete"
    /\ \E o \in O, s \in {StatusOK, StatusNoContent} : UnlockDelete(h, o, s)

\* --------------------------------------------------------------- Extend
CallExtend(h) ==
    /\ generation[h] # ""
    /\ Call(h, "Extend", "extend", "")

PanicExtend(h) ==
    /\ generation[h] = ""
    /\ Panic(h, "Extend", "gmutex: extend of unlocked mutex")
    /\ UNCHANGED generation

\* Adopt runs Extend on the handle it has set to the adopted id.
Extend(h, O) ==
    /\ op[h] \in {"Extend", "Adopt"}
    /\ pc[h] = "extend"
    /\ \E o \in O, s \in {StatusNotFound, StatusPreconditionFailed} :
          LET out == extendObject(h, generation[h], o, s)
              status == out.res.status
          IN  /\ UNCHANGED <<data, sink>>
              /\ IF status = StatusOK
                 THEN Step(h, out, "PUT", out.res.gen, "idle", expect[h], "nil")
                 ELSE IF status = StatusNotFound
                 THEN Step(h, out, "PUT", generation[h], "idle", expect[h], "bucket")
                 ELSE IF status = StatusPreconditionFailed
                 THEN Step(h, out, "PUT", generation[h], "idle", expect[h], "stale")
                 ELSE RetryOrGiveUp(h, out, "PUT")

\* ----------------------------------------------------------- UpdateData
CallUpdateData(h, payload) ==
    /\ generation[h] # ""
    /\ Call(h, "Update", "create", payload)

PanicUpdateData(h, body) ==
    IF generation[h] = ""
    THEN Panic(h, "Update", "gmutex: update of unlocked mutex") /\ UNCHANGED generation
    ELSE /\ ~rewindable(body)
         /\ Panic(h, "Update", "gmutex: data not rewindable")
         /\ UNCHANGED generation

\* UpdateData dropping the generation the store returned.
UpdateDataKeepsGeneration(h, O) ==
    /\ op[h] \in {"Update", "AdoptData"}
    /\ pc[h] = "create"
    /\ \E o \in O :
          LET out == createObject(h, generation[h], data[h], o)
              status == out.res.status
          IN  /\ Consumed(h, out)
              /\ UNCHANGED sink
              /\ IF status = StatusOK
                 THEN Step(h, out, "PUT", generation[h], "idle", expect[h], "nil")
                 ELSE IF status = StatusNotFound
                 THEN Step(h, out, "PUT", generation[h], "idle", expect[h], "bucket")
                 ELSE IF status = StatusPreconditionFailed
                 THEN Step(h, out, "PUT", generation[h], "idle", expect[h], "stale")
                 ELSE RetryOrGiveUp(h, out, "PUT")

\* AdoptData runs UpdateData on the handle it has set to the adopted id.
UpdateData(h, O) ==
    /\ op[h] \in {"Update", "AdoptData"}
    /\ pc[h] = "create"
    /\ \E o \in O :
          LET out == createObject(h, generation[h], data[h], o)
              status == out.res.status
          IN  /\ Consumed(h, out)
              /\ UNCHANGED sink
              /\ IF status = StatusOK
                 THEN Step(h, out, "PUT", out.res.gen, "idle", expect[h], "nil")
                 ELSE IF status = StatusNotFound
                 THEN Step(h, out, "PUT", generation[h], "idle", expect[h], "bucket")
                 ELSE IF status = StatusPreconditionFailed
                 THEN Step(h, out, "PUT", generation[h], "idle", expect[h], "stale")
                 ELSE RetryOrGiveUp(h, out, "PUT")

\* ---------------------------------------------------------- InspectData
CallInspectData(h) ==
    Call(h, "Inspect", "inspect", "")

\* InspectData keeping the generation it was told in m.generation.
InspectDataAssignsField(h, O) ==
    /\ op[h] = "Inspect"
    /\ pc[h] = "inspect"
    /\ \E o \in O :
          LET out == inspectObject(h, TRUE, o)
              status == out.res.status
          IN  /\ UNCHANGED data
              /\ sink' = [sink EXCEPT ![h] = out.body]
              /\ IF status = StatusOK
                 THEN Step(h, out, "GET", out.res.gen, "idle", expect[h], "true")
                 ELSE IF status = StatusNotFound
                 THEN Step(h, out, "GET", generation[h], "idle", expect[h], "false")
                 ELSE RetryOrGiveUp(h, out, "GET")

InspectData(h, O) ==
    /\ op[h] = "Inspect"
    /\ pc[h] = "inspect"
    /\ \E o \in O :
          LET out == inspectObject(h, TRUE, o)
              status == out.res.status
          IN  /\ UNCHANGED data
              /\ sink' = [sink EXCEPT ![h] = out.body]
              /\ IF status = StatusOK
                 THEN Step(h, out, "GET", generation[h], "idle", expect[h], "true")
                 ELSE IF status = StatusNotFound
                 THEN Step(h, out, "GET", generation[h], "idle", expect[h], "false")
                 ELSE RetryOrGiveUp(h, out, "GET")

\* --------------------------------------------------------------- SetTTL
SetTTL(h, d) ==
    /\ pc[h] = "idle"
    /\ ttl' = [ttl EXCEPT ![h] = Seconds(d)]
    /\ duration' = [duration EXCEPT ![h] = d]
    /\ UNCHANGED <<generation, object, lastGen, now, op, pc, expect, arg, data,
                   sink, ret, lastStatus, lastErr, sent, calls, ctx, before,
                   lost>>
    /\ UNCHANGED apart

\* -------------------------------------------------------------- Abandon
\* Abandon deleting the lock object as it lets go of it.
AbandonReleases(h) ==
    /\ generation[h] # ""
    /\ pc[h] = "idle"
    /\ calls' = calls + 1
    /\ op' = [op EXCEPT ![h] = "Abandon"]
    /\ ret' = [ret EXCEPT ![h] = generation[h]]
    /\ lastStatus' = [lastStatus EXCEPT ![h] = 0]
    /\ lastErr' = [lastErr EXCEPT ![h] = "nil"]
    /\ generation' = [generation EXCEPT ![h] = ""]
    /\ sink' = [sink EXCEPT ![h] = Unwritten]
    /\ sent' = [sent EXCEPT ![h] = {}]
    /\ object' = IF GenerationMatch(generation[h]) THEN NoObject ELSE object
    /\ now' = IF GenerationMatch(generation[h]) THEN 0 ELSE now
    /\ UNCHANGED <<ttl, lastGen, pc, expect, arg, data, ctx, before, duration>>
    /\ lost' = [lost EXCEPT ![h] = NoneLost]
    /\ abandoned' = abandoned \cup {generation[h]}
    /\ UNCHANGED <<client, backoff, probe>>

\* Abandon returning the lock id without clearing m.generation.
AbandonKeepsGeneration(h) ==
    /\ generation[h] # ""
    /\ pc[h] = "idle"
    /\ calls' = calls + 1
    /\ op' = [op EXCEPT ![h] = "Abandon"]
    /\ ret' = [ret EXCEPT ![h] = generation[h]]
    /\ lastStatus' = [lastStatus EXCEPT ![h] = 0]
    /\ lastErr' = [lastErr EXCEPT ![h] = "nil"]
    /\ sink' = [sink EXCEPT ![h] = Unwritten]
    /\ sent' = [sent EXCEPT ![h] = {}]
    /\ UNCHANGED <<generation, ttl, object, lastGen, now, pc, expect, arg,
                   data, ctx, before, duration>>
    /\ lost' = [lost EXCEPT ![h] = NoneLost]
    /\ abandoned' = abandoned \cup {generation[h]}
    /\ UNCHANGED <<client, backoff, probe>>

\* Returns the generation and clears the handle; no request is made.
Abandon(h) ==
    /\ generation[h] # ""
    /\ pc[h] = "idle"
    /\ calls' = calls + 1
    /\ op' = [op EXCEPT ![h] = "Abandon"]
    /\ ret' = [ret EXCEPT ![h] = generation[h]]
    /\ lastStatus' = [lastStatus EXCEPT ![h] = 0]
    /\ lastErr' = [lastErr EXCEPT ![h] = "nil"]
    /\ generation' = [generation EXCEPT ![h] = ""]
    /\ sink' = [sink EXCEPT ![h] = Unwritten]
    /\ sent' = [sent EXCEPT ![h] = {}]
    /\ UNCHANGED <<ttl, object, lastGen, now, pc, expect, arg, data, ctx,
                   before, duration>>
    /\ lost' = [lost EXCEPT ![h] = NoneLost]
    /\ abandoned' = abandoned \cup {generation[h]}
    /\ UNCHANGED <<client, backoff, probe>>

PanicAbandon(h) ==
    /\ generation[h] = ""
    /\ Panic(h, "Abandon", "gmutex: abandon of unlocked mutex")
    /\ UNCHANGED generation

\* ---------------------------------------------------------------- Adopt
\* The lock ids a caller can come by: generations the store has issued.
Ids == {FormatInt(n) : n \in 1..lastGen}

\* m.generation = id, then m.Extend(ctx) or m.UpdateData(ctx, data).
Adopting(h, name, first, id, payload) ==
    /\ pc[h] = "idle"
    /\ generation[h] = ""
    /\ id # "" /\ id # "0"
    /\ generation' = [generation EXCEPT ![h] = id]
    /\ calls' = calls + 1
    /\ op' = [op EXCEPT ![h] = name]
    /\ pc' = [pc EXCEPT ![h] = first]
    /\ expect' = [expect EXCEPT ![h] = ""]
    /\ arg' = [arg EXCEPT ![h] = payload]
    /\ data' = [data EXCEPT ![h] = payload]
    /\ sink' = [sink EXCEPT ![h] = Unwritten]
    /\ ret' = [ret EXCEPT ![h] = "none"]
    /\ lastStatus' = [lastStatus EXCEPT ![h] = 0]
    /\ lastErr' = [lastErr EXCEPT ![h] = "nil"]
    /\ sent' = [sent EXCEPT ![h] = {}]
    /\ ctx' = [ctx EXCEPT ![h] = "live"]
    /\ before' = [before EXCEPT ![h] = ""]
    /\ lost' = [lost EXCEPT ![h] = NoneLost]
    /\ UNCHANGED <<ttl, object, lastGen, now, duration>>
    /\ abandoned' = abandoned \ {id}
    /\ UNCHANGED <<client, backoff, probe>>

CallAdopt(h, id) == Adopting(h, "Adopt", "extend", id, "")

CallAdoptData(h, id, payload) == Adopting(h, "AdoptData", "create", id, payload)

\* Adopt installing the id before it validates it.
PanicAdoptInstalls(h, id) ==
    IF generation[h] # ""
    THEN Panic(h, "Adopt", "gmutex: adopt on locked mutex") /\ UNCHANGED generation
    ELSE /\ id = "" \/ id = "0"
         /\ Panic(h, "Adopt", "gmutex: adopt of invalid lock")
         /\ generation' = [generation EXCEPT ![h] = id]

PanicAdopt(h, id) ==
    IF generation[h] # ""
    THEN Panic(h, "Adopt", "gmutex: adopt on locked mutex") /\ UNCHANGED generation
    ELSE /\ id = "" \/ id = "0"
         /\ Panic(h, "Adopt", "gmutex: adopt of invalid lock")
         /\ UNCHANGED generation

\* AdoptData has set m.generation = id when UpdateData finds the payload
\* not rewindable.
PanicAdoptData(h, id, body) ==
    IF generation[h] # ""
    THEN Panic(h, "AdoptData", "gmutex: adopt on locked mutex") /\ UNCHANGED generation
    ELSE IF id = "" \/ id = "0"
    THEN Panic(h, "AdoptData", "gmutex: adopt of invalid lock") /\ UNCHANGED generation
    ELSE /\ ~rewindable(body)
         /\ Panic(h, "AdoptData", "gmutex: data not rewindable")
         /\ generation' = [generation EXCEPT ![h] = id]

\* ----------------------------------------------------- backoff.wait(ctx)
\* The timer fires and the operation goes back to the request it retries.
RetryPoint(name) ==
    CASE name \in {"Lock", "TryLock", "Inspect"} -> "inspect"
      [] name = "Unlock" -> "delete"
      [] name \in {"Extend", "Adopt"} -> "extend"
      [] name \in {"Update", "AdoptData"} -> "create"

wait(h) ==
    /\ pc[h] = "wait"
    /\ pc' = [pc EXCEPT ![h] = RetryPoint(op[h])]
    /\ UNCHANGED <<generation, ttl, object, lastGen, now, op, expect, arg,
                   data, sink, ret, lastStatus, lastErr, sent, calls, ctx,
                   before, duration, lost>>
    /\ UNCHANGED apart

\* case <-ctx.Done(): the wait returns ctx.Err() and the operation returns
\* it. A timer and a context that are both ready are picked from at random.
waitDone(h) ==
    /\ pc[h] = "wait"
    /\ ctx[h] # "live"
    /\ pc' = [pc EXCEPT ![h] = "idle"]
    /\ ret' = [ret EXCEPT ![h] = ctx[h]]
    /\ expect' = [expect EXCEPT ![h] = ""]
    /\ arg' = [arg EXCEPT ![h] = ""]
    /\ before' = [before EXCEPT ![h] = ""]
    /\ UNCHANGED <<generation, ttl, object, lastGen, now, op, data, sink,
                   lastStatus, lastErr, sent, calls, ctx, duration, lost>>
    /\ UNCHANGED apart

\* ------------------------------------------------------------ the context
\* The running call's context is cancelled, or its deadline passes.
Cancel(h, err) ==
    /\ pc[h] \notin {"idle", "panic"}
    /\ ctx[h] = "live"
    /\ ctx' = [ctx EXCEPT ![h] = err]
    /\ UNCHANGED <<generation, ttl, object, lastGen, now, op, pc, expect, arg,
                   data, sink, ret, lastStatus, lastErr, sent, calls, before,
                   duration, lost>>
    /\ UNCHANGED apart

\* ------------------------------------------------------ the store's clock
\* A second passes. The clock is only read through Date against a live
\* object's Last-Modified + ttl, so it is advanced only while that
\* comparison can still change.
Tick ==
    /\ object.exists
    /\ ParseInt(object.ttl).n > 0
    /\ now <= object.modified + ParseInt(object.ttl).n
    /\ now' = now + 1
    /\ UNCHANGED <<generation, ttl, object, lastGen, op, pc, expect, arg,
                   data, sink, ret, lastStatus, lastErr, sent, calls, ctx,
                   before, duration, lost>>
    /\ UNCHANGED apart

\* --------------------------------------------------------- specification
\* A caller may still make a call: the runs are cut at MaxCalls calls.
MayCall == calls < MaxCalls

\* Two handles on one URL, any public calls in any order, any TTLs, a
\* store that answers every request truthfully.
Next ==
    \/ \E h \in Handles, p \in Payloads : MayCall /\ CallLockData(h, p)
    \/ \E h \in Handles, p \in Payloads : MayCall /\ CallTryLockData(h, p)
    \/ \E h \in Handles : MayCall /\ CallUnlock(h)
    \/ \E h \in Handles : MayCall /\ CallExtend(h)
    \/ \E h \in Handles, p \in Payloads : MayCall /\ CallUpdateData(h, p)
    \/ \E h \in Handles : MayCall /\ CallInspectData(h)
    \/ \E h \in Handles : MayCall /\ Abandon(h)
    \/ \E h \in Handles : LockData(h, Truthful)
    \/ \E h \in Handles : TryLockData(h, Truthful)
    \/ \E h \in Handles : Unlock(h, Truthful)
    \/ \E h \in Handles : Extend(h, Truthful)
    \/ \E h \in Handles : UpdateData(h, Truthful)
    \/ \E h \in Handles : InspectData(h, Truthful)
    \/ \E h \in Handles : wait(h)
    \/ Tick

Spec == Init /\ [][Next]_vars

\* ------------------------------------------------------------ vocabulary
Held(h) == generation[h] # ""

\* The handle's generation is the one the remote object is at.
Current(h) == object.exists /\ generation[h] = FormatInt(object.generation)

\* The remote object's TTL has elapsed on the server clock.
Elapsed ==
    /\ object.exists
    /\ ParseInt(object.ttl).n > 0
    /\ object.modified + ParseInt(object.ttl).n < now

\* The remote object is live: it exists and its TTL has not elapsed.
Live == object.exists /\ ~Elapsed

\* The call in which h is Unheld and no other handle acts on the store:
\* the others never called, or abandoned and called nothing since.
Alone(h) ==
    \A k \in Handles \ {h} : pc[k] = "idle" /\ op[k] \in {"New", "Abandon"}

\* Inside the critical section: Lock has returned nil, Unlock not begun.
InCS(h) == op[h] = "Lock" /\ pc[h] = "idle" /\ ret[h] = "nil"

\* In this step handle h makes a remote request / its call returns.
Requests(h) == pc[h] \notin {"idle", "wait"} /\ pc'[h] # pc[h]
Returns(h) == pc[h] # "idle" /\ pc'[h] = "idle"

\* ------------------------------------------------------------------- C1
\* C1 as stated: in every reachable state at most one of the two handles
\* is Held (has a non-empty generation), whatever the TTLs.
C1_AtMostOneHeld ==
    Cardinality({h \in Handles : Held(h)}) <= 1

\* C1 amended: in every reachable state at most one handle is Held at the
\* generation the remote object is at; a handle whose lock expired and was
\* taken over stays Held at its old generation.
C1_AtMostOneCurrent ==
    Cardinality({h \in Handles : Held(h) /\ Current(h)}) <= 1

\* Both handles Held, one of them at the object's generation, one stale.
C1_TwoHeldOneCurrent ==
    \E h, k \in Handles :
        h # k /\ Held(h) /\ Held(k) /\ Current(k) /\ ~Current(h) /\ pc[h] = "idle"

\* ------------------------------------------------------------------- C3
\* C3: when the remote object is at another generation than a Held handle's
\* (its lock expired and another handle took it over), the handle's Unlock,
\* Extend or Update request ends the call with the stale-lock error and
\* leaves the remote object as it is.
C3_TakenOverIsStale ==
    [][\A h \in Handles :
          (/\ op[h] \in {"Unlock", "Extend", "Update"}
           /\ Requests(h)
           /\ object.exists /\ ~Current(h))
          => (ret'[h] = "stale" /\ pc'[h] = "idle" /\ object' = object
              /\ lastGen' = lastGen)]_vars

\* A handle was told stale-lock while the other handle holds the object.
C3_StaleAfterTakeover ==
    \E h, k \in Handles :
        /\ h # k /\ op[h] \in {"Unlock", "Extend", "Update"}
        /\ pc[h] = "idle" /\ ret[h] = "stale"
        /\ Held(k) /\ Current(k) /\ op[k] \in {"Lock", "TryLock"} /\ ret[k] \in {"nil", "true"}

\* ------------------------------------------------------------------- C4
\* C4: an Unlock request made when the handle's lock, taken with a positive
\* TTL, has expired on the server clock (Last-Modified + ttl < Date) ends
\* the call with the stale-lock error.
C4_UnlockExpiredIsStale ==
    [][\A h \in Handles :
          (/\ op[h] = "Unlock"
           /\ Requests(h)
           /\ Current(h) => Elapsed)
          => ret'[h] = "stale"]_vars

\* ------------------------------------------------------------------- C8
\* C8: a TryLock inspection that finds the remote object live (existing,
\* not expired) ends the call at once with (false, nil): no backoff wait,
\* no further request, the handle Unheld and the remote object unchanged.
C8_TryLockHeldReturnsFalse ==
    [][\A h \in Handles :
          (op[h] = "TryLock" /\ pc[h] = "inspect" /\ Requests(h) /\ Live)
          => (/\ pc'[h] = "idle" /\ ret'[h] = "false"
              /\ sent'[h] = sent[h] \cup {"HEAD"}
              /\ generation'[h] = ""
              /\ object' = object /\ lastGen' = lastGen)]_vars

\* TryLock returned false on its first request while the other handle holds.
C8_TryLockSawHolder ==
    \E h, k \in Handles :
        /\ h # k /\ op[h] = "TryLock" /\ pc[h] = "idle" /\ ret[h] = "false"
        /\ sent[h] = {"HEAD"} /\ ~Held(h)
        /\ Held(k) /\ Current(k) /\ Live

\* ------------------------------------------------------------------- C9
\* C9: when the store answers Unlock's conditional delete with 200 or 204,
\* Unlock returns nil, the handle is Unheld and the remote object is gone.
C9_UnlockSuccess ==
    [][\A h \in Handles :
          (op[h] = "Unlock" /\ Requests(h)
           /\ lastStatus'[h] \in {StatusOK, StatusNoContent})
          => (/\ pc'[h] = "idle" /\ ret'[h] = "nil"
              /\ generation'[h] = ""
              /\ ~object'.exists)]_vars

\* An Unlock answered 200 or 204 has returned nil and the object is gone.
C9_Unlocked ==
    \E s \in {StatusOK, StatusNoContent} : \E h \in Handles :
        /\ op[h] = "Unlock" /\ pc[h] = "idle" /\ lastStatus[h] = s
        /\ ret[h] = "nil" /\ ~object.exists

\* ------------------------------------------------------------------ C10
\* C10: a Lock or Update that succeeds leaves the caller's payload as the
\* remote body, a successful Unlock leaves no object, and Inspect returns
\* (true, the remote body) of a live object and (false, nothing written)
\* otherwise: so Lock(P), Inspect gives (true, P), and so on.
C10_PayloadRoundTrip ==
    [][\A h \in Handles :
          /\ (op[h] = "Lock" /\ Requests(h) /\ ret'[h] = "nil" /\ Alone(h))
             => (object'.exists /\ object'.data = arg[h])
          /\ (op[h] = "Update" /\ Requests(h) /\ ret'[h] = "nil")
             => (object'.exists /\ object'.data = arg[h])
          /\ (op[h] = "Unlock" /\ Requests(h) /\ ret'[h] = "nil")
             => ~object'.exists
          /\ (op[h] = "Inspect" /\ Requests(h))
             => IF Live THEN ret'[h] = "true" /\ sink'[h] = object.data
                ELSE ret'[h] = "false" /\ sink'[h] = Unwritten]_vars

\* ============================================================ contention
\* TestMutex_contention: NumAcquirers handles made with one TTL, each runs
\* Lock, its critical section, Unlock, once. No clock: the TTL does not
\* elapse during the run. The store answers truthfully or with a transient
\* status.
InitContention ==
    /\ \E n \in TTLs : New(1..NumAcquirers, [h \in 1..NumAcquirers |-> n * Second])
    /\ AtRest

NextContention ==
    \/ \E h \in Handles : op[h] = "New" /\ CallLockData(h, "")
    \/ \E h \in Handles : InCS(h) /\ CallUnlock(h)
    \/ \E h \in Handles : LockData(h, Truthful \cup Transient)
    \/ \E h \in Handles : Unlock(h, Truthful \cup Transient)
    \/ \E h \in Handles : wait(h)

SpecContention == InitContention /\ [][NextContention]_vars

\* ------------------------------------------------------------------- C2
\* C2: no two acquirers are inside their critical section at once, and
\* every Lock and every Unlock that returned, returned nil.
C2_MutualExclusion ==
    /\ Cardinality({h \in Handles : InCS(h)}) <= 1
    /\ \A h \in Handles :
          (pc[h] = "idle" /\ op[h] \in {"Lock", "Unlock"}) => ret[h] = "nil"

\* One acquirer is in its section after another left its own and unlocked.
C2_SecondInSection ==
    \E h, k \in Handles :
        /\ h # k /\ InCS(h)
        /\ op[k] = "Unlock" /\ pc[k] = "idle" /\ ret[k] = "nil"
        /\ \E j \in Handles \ {h, k} : op[j] = "Lock" /\ pc[j] = "wait"

\* =============================================================== handoff
\* Scenario 2: the same acquirers, a store that answers every request
\* truthfully, and calls that, once made, keep running.
NextHandoff ==
    \/ \E h \in Handles : op[h] = "New" /\ CallLockData(h, "")
    \/ \E h \in Handles : InCS(h) /\ CallUnlock(h)
    \/ \E h \in Handles : LockData(h, Truthful)
    \/ \E h \in Handles : Unlock(h, Truthful)
    \/ \E h \in Handles : wait(h)

Running(h) == LockData(h, Truthful) \/ Unlock(h, Truthful) \/ wait(h)

SpecHandoff ==
    /\ InitContention /\ [][NextHandoff]_vars
    /\ \A h \in 1..NumAcquirers : WF_vars(Running(h))

\* ------------------------------------------------------------------- C6
\* C6: a Lock call returns only by acquiring, and acquires only when the
\* remote object is absent: it does not return while another handle holds
\* the lock. Once every other acquirer has unlocked, a Lock still running
\* eventually returns nil.
C6_WaitsThenAcquires ==
    /\ [][\A h \in Handles :
             (op[h] = "Lock" /\ Returns(h))
             => (~object.exists /\ ret'[h] = "nil" /\ Held(h)')]_vars
    /\ \A h \in 1..NumAcquirers :
          (/\ op[h] = "Lock" /\ pc[h] # "idle"
           /\ \A k \in Handles \ {h} :
                 op[k] = "Unlock" /\ pc[k] = "idle" /\ ret[k] = "nil")
          ~> InCS(h)

\* A contender that backed off on the held lock acquired after the Unlock.
C6_AcquiredAfterWait ==
    \E h, k \in Handles :
        /\ h # k /\ InCS(h) /\ "HEAD" \in sent[h]
        /\ op[k] = "Unlock" /\ pc[k] = "idle" /\ ret[k] = "nil"

\* ============================================================ expiration
\* TestMutex_expiration, TestMutex_extension: two handles with positive
\* TTLs that Lock, TryLock, Extend and Abandon but never Unlock, a store
\* that answers truthfully, a clock that keeps running and calls that,
\* once made, keep running.
InitExpiration ==
    /\ \E t \in [{1, 2} -> TTLs \ {0}] : New({1, 2}, [h \in {1, 2} |-> t[h] * Second])
    /\ AtRest

MayCallExpiration == calls < MaxCalls + 1

NextExpiration ==
    \/ \E h \in Handles : MayCallExpiration /\ CallLockData(h, "")
    \/ \E h \in Handles : MayCallExpiration /\ CallTryLockData(h, "")
    \/ \E h \in Handles : MayCallExpiration /\ CallExtend(h)
    \/ \E h \in Handles : MayCallExpiration /\ Abandon(h)
    \/ \E h \in Handles : LockData(h, Truthful)
    \/ \E h \in Handles : TryLockData(h, Truthful)
    \/ \E h \in Handles : Extend(h, Truthful)
    \/ \E h \in Handles : wait(h)
    \/ Tick

RunningExpiration(h) ==
    LockData(h, Truthful) \/ TryLockData(h, Truthful) \/ Extend(h, Truthful) \/ wait(h)

SpecExpiration ==
    /\ InitExpiration /\ [][NextExpiration]_vars
    /\ WF_vars(Tick)
    /\ \A h \in {1, 2} : WF_vars(RunningExpiration(h))

\* ------------------------------------------------------------------- C5
\* C5: a Lock running against an abandoned object (it exists, with a
\* positive TTL, and no handle is Held at its generation, so nobody can
\* extend or update it) eventually returns nil.
C5_AbandonedIsTakenOver ==
    \A h \in {1, 2} :
        (/\ op[h] = "Lock" /\ pc[h] # "idle"
         /\ object.exists
         /\ \A k \in Handles : ~(Held(k) /\ Current(k)))
        ~> InCS(h)

\* Lock returned nil by taking over the object another handle abandoned.
C5_TookOverAbandoned ==
    \E h, k \in Handles :
        /\ h # k /\ op[k] = "Abandon" /\ ret[k] = "1"
        /\ InCS(h) /\ Current(h) /\ generation[h] = "2"
        /\ sent[h] = {"PUT", "HEAD"}

\* ------------------------------------------------------------------- C7
\* C7: no Lock or TryLock request acquires while the remote object is
\* live, i.e. while the server clock has not passed the Last-Modified + ttl
\* that the holder's last Lock or Extend set; and every Lock call
\* eventually returns nil once the holder stops extending.
C7_ExtendKeepsOthersOut ==
    /\ [][\A h \in Handles :
             (op[h] \in {"Lock", "TryLock"} /\ Requests(h) /\ Live)
             => ~Held(h)']_vars
    /\ \A h \in {1, 2} : (op[h] = "Lock" /\ pc[h] # "idle") ~> InCS(h)

\* A Lock backs off on the live object the holder's Extend has just refreshed.
C7_WaitingOnExtended ==
    \E h, k \in Handles :
        /\ h # k /\ op[k] = "Extend" /\ pc[k] = "idle" /\ ret[k] = "nil"
        /\ Current(k) /\ Live
        /\ op[h] = "Lock" /\ pc[h] = "wait" /\ lastStatus[h] = StatusOK

\* ------------------------------------------------------------------ C13
\* C13: Abandon on a Held handle returns the handle's generation, leaves
\* the handle Unheld and makes no request: the remote object, its
\* generation, payload, ttl and Last-Modified are as they were, so an
\* object that was at the handle's generation still exists at it.
C13_AbandonKeepsObject ==
    [][\A h \in Handles :
          (Held(h) /\ pc[h] = "idle" /\ op'[h] = "Abandon" /\ calls' = calls + 1)
          => (/\ ret'[h] = generation[h] /\ ~Held(h)' /\ pc'[h] = "idle"
              /\ sent'[h] = {}
              /\ object' = object /\ lastGen' = lastGen /\ now' = now
              /\ Current(h) => (object'.exists
                                /\ FormatInt(object'.generation) = ret'[h]))]_vars

\* A handle abandoned the lock it held with a payload: the object is there.
C13_Abandoned ==
    \E h \in Handles :
        /\ op[h] = "Abandon" /\ ~Held(h) /\ sent[h] = {}
        /\ object.exists /\ ret[h] = FormatInt(object.generation)
        /\ object.data = "hello"

\* ============================================================= lifecycle
\* Two handles on one URL whose callers use and misuse the whole API:
\* Lock, TryLock, Unlock, Extend, Update, Abandon, Adopt and AdoptData,
\* with any lock id and any kind of reader. The store answers truthfully
\* and the clock runs.
MayCallLifecycle == calls < MaxCalls + 1

\* The ids a caller may pass to Adopt, valid or not.
AnyIds == Ids \cup {"", "0"}

NextLifecycle ==
    \/ \E h \in Handles : MayCallLifecycle /\ CallLockData(h, "")
    \/ \E h \in Handles : MayCallLifecycle /\ CallTryLockData(h, "")
    \/ \E h \in Handles : MayCallLifecycle /\ CallUnlock(h)
    \/ \E h \in Handles : MayCallLifecycle /\ CallExtend(h)
    \/ \E h \in Handles, p \in Payloads : MayCallLifecycle /\ CallUpdateData(h, p)
    \/ \E h \in Handles : MayCallLifecycle /\ Abandon(h)
    \/ \E h \in Handles, id \in Ids : MayCallLifecycle /\ CallAdopt(h, id)
    \/ \E h \in Handles, id \in Ids, p \in Payloads :
          MayCallLifecycle /\ CallAdoptData(h, id, p)
    \/ \E h \in Handles, b \in Readers : MayCallLifecycle /\ PanicLockData(h, b)
    \/ \E h \in Handles, b \in Readers : MayCallLifecycle /\ PanicTryLockData(h, b)
    \/ \E h \in Handles : MayCallLifecycle /\ PanicUnlock(h)
    \/ \E h \in Handles : MayCallLifecycle /\ PanicExtend(h)
    \/ \E h \in Handles, b \in Readers : MayCallLifecycle /\ PanicUpdateData(h, b)
    \/ \E h \in Handles : MayCallLifecycle /\ PanicAbandon(h)
    \/ \E h \in Handles, id \in AnyIds : MayCallLifecycle /\ PanicAdopt(h, id)
    \/ \E h \in Handles, id \in AnyIds, b \in Readers :
          MayCallLifecycle /\ PanicAdoptData(h, id, b)
    \/ \E h \in Handles : LockData(h, Truthful)
    \/ \E h \in Handles : TryLockData(h, Truthful)
    \/ \E h \in Handles : Unlock(h, Truthful)
    \/ \E h \in Handles : Extend(h, Truthful)
    \/ \E h \in Handles : UpdateData(h, Truthful)
    \/ \E h \in Handles : wait(h)
    \/ Tick

SpecLifecycle == Init /\ [][NextLifecycle]_vars

\* In this step handle h begins a call that gets past its checks / panics.
Begins(h) == pc[h] = "idle" /\ pc'[h] \notin {"idle", "panic"}
Panics(h) == pc[h] = "idle" /\ pc'[h] = "panic"

\* ------------------------------------------------------------------ C12
\* C12: Lock, TryLock or Adopt on a Held handle, Unlock, Extend, Update or
\* Abandon on an Unheld handle, Adopt of the id "" or "0", and a reader
\* that is not rewindable passed to Lock, TryLock or Update, all panic
\* with nothing changed: no request made, the store and the handle as
\* they were. No call gets past its checks on a handle in the wrong state
\* or with an invalid id, and each panic names a misuse that took place.
C12_MisusePanics ==
    [][\A h \in Handles :
          /\ (Panics(h) /\ ~(op'[h] = "AdoptData"
                              /\ ret'[h] = "gmutex: data not rewindable"))
             => (/\ generation' = generation /\ ttl' = ttl
                 /\ object' = object /\ lastGen' = lastGen /\ now' = now
                 /\ sent'[h] = {})
          /\ Panics(h)
             => (/\ ret'[h] \in {"gmutex: lock of locked mutex",
                                  "gmutex: adopt on locked mutex"} => Held(h)
                 /\ ret'[h] \in {"gmutex: unlock of unlocked mutex",
                                  "gmutex: extend of unlocked mutex",
                                  "gmutex: update of unlocked mutex",
                                  "gmutex: abandon of unlocked mutex",
                                  "gmutex: adopt of invalid lock"} => ~Held(h)
                 /\ (ret'[h] = "gmutex: data not rewindable"
                     /\ op'[h] \in {"Lock", "TryLock"}) => ~Held(h)
                 /\ (ret'[h] = "gmutex: data not rewindable"
                     /\ op'[h] = "Update") => Held(h))
          /\ Begins(h)
             => (/\ op'[h] \in {"Lock", "TryLock"} => ~Held(h)
                 /\ op'[h] \in {"Adopt", "AdoptData"}
                    => (~Held(h) /\ generation'[h] \notin {"", "0"})
                 /\ op'[h] \in {"Unlock", "Extend", "Update"} => Held(h)
                 /\ sent'[h] = {} /\ object' = object /\ lastGen' = lastGen)
          /\ (pc[h] = "idle" /\ op'[h] = "Abandon" /\ calls' = calls + 1
              /\ ret'[h] # ret[h] /\ ~Held(h))
             => Panics(h)]_vars

\* One caller passed Adopt an invalid id while the lock was held, the
\* other passed a reader that is not rewindable: both panicked.
C12_BothPanicked ==
    \E h, k \in Handles :
        /\ h # k /\ pc[h] = "panic" /\ pc[k] = "panic"
        /\ op[h] = "Adopt" /\ ret[h] = "gmutex: adopt of invalid lock"
        /\ op[k] = "Update" /\ ret[k] = "gmutex: data not rewindable"
        /\ Held(k) /\ Current(k) /\ sent[h] = {} /\ sent[k] = {}

\* ------------------------------------------------------------------ C14
\* C14: Adopt(id) sets the Unheld handle to the valid id and makes Extend's
\* request (AdoptData: Update's) with it as the precondition. When the
\* remote object is at generation id, the call returns nil with the handle
\* Held at the new generation the store returned, the body kept (AdoptData:
\* the caller's payload); when the object is at another generation, the
\* call returns the stale-lock error and the object is as it was.
C14_AdoptProvesExclusion ==
    [][\A h \in Handles :
          /\ (Begins(h) /\ op'[h] \in {"Adopt", "AdoptData"})
             => (~Held(h) /\ generation'[h] \in Ids /\ sent'[h] = {})
          /\ (op[h] \in {"Adopt", "AdoptData"} /\ Requests(h) /\ object.exists)
             => IF generation[h] = FormatInt(object.generation)
                THEN /\ pc'[h] = "idle" /\ ret'[h] = "nil"
                     /\ lastGen' = lastGen + 1
                     /\ generation'[h] = FormatInt(lastGen')
                     /\ Current(h)'
                     /\ object'.data = IF op[h] = "Adopt" THEN object.data ELSE arg[h]
                     /\ object'.ttl = FormatInt(ttl[h])
                ELSE /\ pc'[h] = "idle" /\ ret'[h] = "stale"
                     /\ object' = object /\ lastGen' = lastGen]_vars

\* A handle adopted the lock the other had abandoned, and holds it.
C14_Adopted ==
    \E h, k \in Handles :
        /\ h # k /\ op[k] = "Abandon" /\ ret[k] = "1"
        /\ op[h] = "Adopt" /\ pc[h] = "idle" /\ ret[h] = "nil"
        /\ generation[h] = "2" /\ Current(h) /\ sent[h] = {"PUT"}

\* ------------------------------------------------------------------ C17
\* C17: an Unlock, Extend or Update that returns the stale-lock error
\* leaves the handle's generation as it was, the handle Held; an Abandon
\* that follows does not panic and returns that generation.
C17_StaleStaysHeld ==
    [][\A h \in Handles :
          /\ (op[h] \in {"Unlock", "Extend", "Update"} /\ Returns(h)
              /\ ret'[h] = "stale")
             => (generation'[h] = generation[h] /\ Held(h)')
          /\ (op[h] \in {"Unlock", "Extend", "Update"} /\ pc[h] = "idle"
              /\ ret[h] = "stale" /\ op'[h] = "Abandon")
             => (~Panics(h) /\ ret'[h] = generation[h] /\ ~Held(h)')]_vars

\* A handle told stale-lock is still Held, at a generation the object left.
C17_HeldAfterStale ==
    \E h \in Handles :
        /\ op[h] \in {"Unlock", "Extend", "Update"} /\ pc[h] = "idle"
        /\ ret[h] = "stale" /\ lastStatus[h] = StatusPreconditionFailed
        /\ Held(h) /\ ~Current(h) /\ object.exists /\ calls < MaxCalls + 1

\* ------------------------------------------------------------------ C18
\* C18: an Extend or Update whose conditional write the store answers with
\* 412 or with 404 returns the stale-lock error.
C18_AbsentIsStale ==
    [][\A h \in Handles :
          (op[h] \in {"Extend", "Update"} /\ Requests(h)
           /\ lastStatus'[h] \in {StatusPreconditionFailed, StatusNotFound})
          => ret'[h] = "stale"]_vars

\* ============================================================== failures
\* Two handles with locks that never expire, any public calls in any
\* order, a store and a network that may fail any request (a transient
\* status, a fatal one, a temporary or a lasting transport error) and
\* contexts that may be cancelled or time out at any point of a call.
InitFailures == New({1, 2}, [h \in {1, 2} |-> 0]) /\ AtRest

MayCallFailures == calls < MaxCalls - 1

Unreliable == Truthful \cup Transient \cup Broken \cup Fatal \cup Interrupted

NextFailures ==
    \/ \E h \in Handles : MayCallFailures /\ CallLockData(h, "")
    \/ \E h \in Handles : MayCallFailures /\ CallTryLockData(h, "")
    \/ \E h \in Handles : MayCallFailures /\ CallUnlock(h)
    \/ \E h \in Handles : MayCallFailures /\ CallExtend(h)
    \/ \E h \in Handles : MayCallFailures /\ CallUpdateData(h, "")
    \/ \E h \in Handles : MayCallFailures /\ CallInspectData(h)
    \/ \E h \in Handles : MayCallFailures /\ Abandon(h)
    \/ \E h \in Handles, id \in Ids : MayCallFailures /\ CallAdopt(h, id)
    \/ \E h \in Handles : LockData(h, Unreliable)
    \/ \E h \in Handles : TryLockData(h, Unreliable)
    \/ \E h \in Handles : Unlock(h, Unreliable)
    \/ \E h \in Handles : Extend(h, Unreliable)
    \/ \E h \in Handles : UpdateData(h, Unreliable)
    \/ \E h \in Handles : InspectData(h, Unreliable)
    \/ \E h \in Handles : wait(h)
    \/ \E h \in Handles : waitDone(h)
    \/ \E h \in Handles, err \in {Canceled, DeadlineExceeded} : Cancel(h, err)

SpecFailures == InitFailures /\ [][NextFailures]_vars

\* The last answer was transient / was a failure no retry will cure.
TransientAnswer(h) == retriable(lastStatus[h], lastErr[h])
FatalAnswer(h) ==
    /\ lastStatus[h] \notin {StatusOK, StatusNoContent, StatusNotFound,
                              StatusPreconditionFailed}
    /\ ~retriable(lastStatus[h], lastErr[h])

\* ------------------------------------------------------------------ C15
\* C15: a call whose context has fired, during a backoff wait or during a
\* request, returns the context's error, and the handle's generation is
\* then what it was before the call.
C15_CancelChangesNothing ==
    [][\A h \in Handles :
          (Returns(h) /\ ctx'[h] # "live")
          => (ret'[h] = ctx'[h] /\ generation'[h] = before[h])]_vars

\* ------------------------------------------------------------------ C19
\* C19: when a request of Lock, TryLock, Unlock, Extend, Update or Inspect
\* ends in a non-transient failure (a status other than 200, 204, 404, 412
\* and the transient ones, or a transport error that is not temporary),
\* the call returns in that step, without a backoff wait, an error that
\* carries the status or the transport error, with the handle's generation
\* unchanged.
C19_FatalSurfaces ==
    [][\A h \in Handles :
          (/\ op[h] \in {"Lock", "TryLock", "Unlock", "Extend", "Update", "Inspect"}
           /\ Requests(h) /\ FatalAnswer(h)')
          => (/\ pc'[h] = "idle"
              /\ ret'[h] = IF lastErr'[h] # "nil" THEN lastErr'[h] ELSE "http status"
              /\ generation'[h] = generation[h]
              /\ generation'[h] = before[h])]_vars

\* An Unlock refused with 403 returned the error; the handle is still Held.
C19_Refused ==
    \E h \in Handles :
        /\ op[h] = "Unlock" /\ pc[h] = "idle" /\ ret[h] = "http status"
        /\ lastStatus[h] = StatusForbidden /\ sent[h] = {"DELETE"}
        /\ Held(h) /\ Current(h)

\* ------------------------------------------------------------------ C20
\* C20: a request of any public operation that ends in a transient outcome
\* (a transient status, a temporary or timed out transport error) is
\* followed by a backoff wait, never by a return; the wait ends in the
\* retry of the request or, only when the context has fired, in the return
\* of the context's error.
C20_TransientRetried ==
    [][\A h \in Handles :
          /\ (Requests(h) /\ TransientAnswer(h)')
             => (pc'[h] = "wait" /\ ret'[h] = "none"
                 /\ generation'[h] = generation[h])
          /\ (pc[h] = "wait" /\ pc'[h] # "wait")
             => IF Returns(h)
                THEN ctx[h] # "live" /\ ret'[h] = ctx[h]
                ELSE pc'[h] = RetryPoint(op[h]) /\ ret'[h] = "none"]_vars

\* An Extend that kept getting 503 returned when its context was cancelled.
C20_CancelledWhileRetrying ==
    \E h \in Handles :
        /\ op[h] = "Extend" /\ pc[h] = "idle" /\ ret[h] = Canceled
        /\ lastStatus[h] = StatusServiceUnavailable /\ sent[h] = {"PUT"}
        /\ Held(h) /\ Current(h)

\* ========================================================== cancellation
\* Two handles with locks that never expire, each calling Lock once and
\* never unlocking: the second to come waits on the first. Contexts may be
\* cancelled or time out at any point of a call; the store answers
\* truthfully, with a transient status, or not before the context fires.
\* A running call keeps running, and a wait whose context is done does
\* not pick its timer for ever.
NextCancel ==
    \/ \E h \in Handles : op[h] = "New" /\ CallLockData(h, "")
    \/ \E h \in Handles : LockData(h, Truthful \cup Transient \cup Interrupted)
    \/ \E h \in Handles : wait(h)
    \/ \E h \in Handles : waitDone(h)
    \/ \E h \in Handles, err \in {Canceled, DeadlineExceeded} : Cancel(h, err)

RunningCancel(h) ==
    LockData(h, Truthful \cup Transient \cup Interrupted) \/ wait(h) \/ waitDone(h)

SpecCancel ==
    /\ InitFailures /\ [][NextCancel]_vars
    /\ \A h \in {1, 2} : WF_vars(RunningCancel(h)) /\ SF_vars(waitDone(h))

\* ------------------------------------------------------------------ C16
\* C16: once its context has fired, a Lock call makes no request (no PUT,
\* no DELETE, nothing that changes the store) and eventually returns the
\* context's error; so does a Lock that waits on a held lock that never
\* expires.
C16_CancelledLockReturns ==
    /\ [][\A h \in Handles :
             (op[h] = "Lock" /\ ctx[h] # "live" /\ pc'[h] # pc[h])
             => (sent'[h] = sent[h] /\ object' = object /\ lastGen' = lastGen)]_vars
    /\ \A h \in {1, 2} :
          (op[h] = "Lock" /\ pc[h] # "idle" /\ ctx[h] # "live")
          ~> (pc[h] = "idle" /\ ret[h] = ctx[h])

\* A Lock that was waiting on the other handle's lock returned the error of
\* its context: its last answer was the 200 of an inspection.
C16_WaiterCancelled ==
    \E h, k \in Handles :
        /\ h # k /\ Held(k) /\ Current(k) /\ object.ttl = "0"
        /\ op[h] = "Lock" /\ pc[h] = "idle" /\ ret[h] = DeadlineExceeded
        /\ lastStatus[h] = StatusOK /\ sent[h] = {"PUT", "HEAD"} /\ ~Held(h)

\* =================================================================== TTL
\* TestMutex_SetTTL: two handles made with one time-to-live, any at all,
\* and SetTTL called with any time-to-live, any number of times.
InitTTL == (\E d \in Durations : New({1, 2}, [h \in {1, 2} |-> d])) /\ AtRest

NextTTL == \E h \in Handles, d \in Durations : SetTTL(h, d)

SpecTTL == InitTTL /\ [][NextTTL]_vars

\* ------------------------------------------------------------------ C11
\* C11: after New or SetTTL with the duration d, TTL() reports 0 when
\* d <= 0 and ceil(d / 1s) whole seconds when d > 0 (stated for every d
\* whose rounded value is itself a Duration).
C11_TTLNormalised ==
    \A h \in Handles :
        LET d == duration[h]
            want == IF d <= 0 THEN 0
                    ELSE ((d + (Second - 1)) \div Second) * Second
        IN  want <= MaxDuration => TTL(h) = want

\* ================================================================ retries
\* Two handles, any TTLs, a store that answers truthfully, or is
\* unavailable, or applies a request and loses the answer on its way back
\* (once in a call at most, which keeps the generations bounded).
InitRetry == Init

Flaky(h) ==
    Truthful \cup {"unavailable"} \cup (IF lost[h] = NoneLost THEN Lost ELSE {})

NextRetry ==
    \/ \E h \in Handles : MayCallFailures /\ CallLockData(h, "")
    \/ \E h \in Handles : MayCallFailures /\ CallTryLockData(h, "")
    \/ \E h \in Handles : MayCallFailures /\ CallUnlock(h)
    \/ \E h \in Handles : MayCallFailures /\ CallExtend(h)
    \/ \E h \in Handles : MayCallFailures /\ CallUpdateData(h, "")
    \/ \E h \in Handles : LockData(h, Flaky(h))
    \/ \E h \in Handles : TryLockData(h, Flaky(h))
    \/ \E h \in Handles : Unlock(h, Flaky(h))
    \/ \E h \in Handles : Extend(h, Flaky(h))
    \/ \E h \in Handles : UpdateData(h, Flaky(h))
    \/ \E h \in Handles : wait(h)
    \/ Tick

SpecRetry == InitRetry /\ [][NextRetry]_vars

\* The step in which h sends a conditional PUT or DELETE.
Writes(h) == pc[h] \in {"create", "delete", "extend"} /\ Requests(h)

\* ------------------------------------------------------------------ C21
\* C21: when the store has applied a conditional PUT or DELETE of a call
\* and the answer was lost, a retry by that call carrying the same
\* if-generation-match changes nothing: the store does not answer it with
\* a success and the object stays as the first attempt left it (for the
\* precondition "0", as long as nobody removed the object in between).
C21_RetryAppliesNothing ==
    [][\A h \in Handles :
          (/\ Writes(h)
           /\ lost[h].gen = IfGenerationMatch(h)
           /\ (lost[h].gen # "0" \/ object = lost[h].object))
          => (/\ object' = object
              /\ lastGen' = lastGen
              /\ lastStatus'[h] \notin {StatusOK, StatusNoContent})]_vars

\* An Unlock whose DELETE was applied unanswered retried it, was answered
\* 404 and returned the stale-lock error: the object is gone, once.
C21_RetryRejected ==
    \E h \in Handles :
        /\ op[h] = "Unlock" /\ pc[h] = "idle" /\ ret[h] = "stale"
        /\ lost[h].gen = generation[h] /\ lost[h].object = NoObject
        /\ lastStatus[h] = StatusNotFound /\ ~object.exists

\* ================================================================= bucket
\* Two handles on a bucket that does not exist: the store answers every
\* request 404, when it answers at all.
InitBucket == Init

Missing == NoBucket \cup {"unavailable"}

NextBucket ==
    \/ \E h \in Handles : MayCall /\ CallLockData(h, "")
    \/ \E h \in Handles : MayCall /\ CallTryLockData(h, "")
    \/ \E h \in Handles : LockData(h, Missing)
    \/ \E h \in Handles : TryLockData(h, Missing)
    \/ \E h \in Handles : wait(h)

SpecBucket == InitBucket /\ [][NextBucket]_vars

\* ------------------------------------------------------------------ C22
\* C22: when the store answers the conditional create of Lock or TryLock
\* with 404, the call returns the bucket-does-not-exist error in that very
\* step, without a backoff wait or another request, and the handle stays
\* Unheld.
C22_NoBucketReturnsAtOnce ==
    [][\A h \in Handles :
          (/\ op[h] \in {"Lock", "TryLock"} /\ pc[h] = "create"
           /\ Requests(h) /\ lastStatus'[h] = StatusNotFound)
          => (/\ pc'[h] = "idle" /\ ret'[h] = "bucket"
              /\ generation'[h] = "" /\ object' = object)]_vars

\* A Lock and a TryLock have both returned the bucket error, the Lock
\* after its one PUT, the TryLock after its inspection and its PUT.
C22_BucketMissing ==
    \E h, k \in Handles :
        /\ op[h] = "Lock" /\ pc[h] = "idle" /\ ret[h] = "bucket"
        /\ sent[h] = {"PUT"} /\ ~Held(h)
        /\ op[k] = "TryLock" /\ pc[k] = "idle" /\ ret[k] = "bucket"
        /\ sent[k] = {"HEAD", "PUT"} /\ ~Held(k)
        /\ ~object.exists

\* ------------------------------------------------------------------ C23
\* C23: from its first step to its return, whatever the store answers and
\* whether the handle is Held or Unheld, an Inspect leaves the handle's
\* generation as it was, sends nothing but GET or HEAD, and its requests
\* leave the remote object as it was.
C23_InspectChangesNothing ==
    [][\A h \in Handles :
          op'[h] = "Inspect"
          => (/\ generation'[h] = generation[h]
              /\ sent'[h] \subseteq {"GET", "HEAD"}
              /\ (op[h] = "Inspect" /\ Requests(h))
                     => (object' = object /\ lastGen' = lastGen))]_vars

\* A Held handle has inspected its own lock, a request was refused on the
\* way, and the handle is Held at the same generation still.
C23_InspectedWhileHeld ==
    \E h \in Handles :
        /\ op[h] = "Inspect" /\ pc[h] = "idle" /\ sent[h] = {"GET"}
        /\ Held(h) /\ Current(h) /\ ret[h] # "true" /\ ret[h] # "false"

\* ------------------------------------------------------------------ C24
\* C24: an Inspect that the store answers returns true exactly when the
\* object exists and its TTL has not elapsed; of an object that exists but
\* has expired it returns false and copies nothing to the writer.
C24_InspectTellsLive ==
    [][\A h \in Handles :
          (op[h] = "Inspect" /\ Returns(h))
          => (/\ ret'[h] = (IF Live THEN "true" ELSE "false")
              /\ Live => sink'[h] = object.data
              /\ ~Live => sink'[h] = Unwritten)]_vars

\* An Inspect of an expired lock that carries a payload returned false
\* and its writer got nothing.
C24_InspectedExpired ==
    \E h \in Handles :
        /\ op[h] = "Inspect" /\ pc[h] = "idle" /\ ret[h] = "false"
        /\ object.exists /\ Elapsed /\ object.data = "hello"
        /\ sink[h] = Unwritten

\* ================================================================= client
\* NumAcquirers goroutines call New at once, the application having set
\* HttpClient or not; google.DefaultClient may fail; a goroutine that got
\* its handle makes requests with it.
Goroutines == 1..NumAcquirers

InitClient ==
    /\ New({}, <<>>)
    /\ \E c \in {"nil", "injected"} : client = Package(c, Goroutines)
    /\ backoff = ZeroBackOff
    /\ probe = NoProbe

Handled == <<generation, ttl, object, lastGen, now, op, pc, expect, arg, data,
             sink, ret, lastStatus, lastErr, sent, calls, ctx, before,
             duration, lost, abandoned, backoff, probe>>

\* initClient entered without initMtx.Lock().
initMtxLockSkipped(g) ==
    /\ client.pc[g] = "New"
    /\ client' = [client EXCEPT !.pc[g] = "test"]
    /\ UNCHANGED Handled

\* initMtx.Lock(): blocks while another goroutine holds the mutex.
initMtxLock(g) ==
    /\ client.pc[g] = "New"
    /\ client.initMtx = 0
    /\ client' = [client EXCEPT !.initMtx = g, !.pc[g] = "test"]
    /\ UNCHANGED Handled

\* if HttpClient == nil
initClientTest(g) ==
    /\ client.pc[g] = "test"
    /\ client' = [client EXCEPT !.pc[g] = IF client.HttpClient = "nil"
                                          THEN "DefaultClient" ELSE "Unlock"]
    /\ UNCHANGED Handled

\* The n-th client google.DefaultClient has built.
Default(n) == "default " \o ToString(n)

\* HttpClient, err = google.DefaultClient(ctx, scope): a new client, the
\* built-th, or nil and an error.
DefaultClient(g) ==
    /\ client.pc[g] = "DefaultClient"
    /\ \/ client' = [client EXCEPT !.HttpClient = Default(client.built + 1),
                                   !.built = client.built + 1,
                                   !.pc[g] = "Unlock"]
       \/ client' = [client EXCEPT !.HttpClient = "nil",
                                   !.err[g] = "error",
                                   !.pc[g] = "Unlock"]
    /\ UNCHANGED Handled

\* The deferred initMtx.Unlock(), and New returns its handle or the error.
initMtxUnlock(g) ==
    /\ client.pc[g] = "Unlock"
    /\ client' = [client EXCEPT
                     !.initMtx = IF client.initMtx = g THEN 0 ELSE @,
                     !.pc[g] = IF client.err[g] = "nil" THEN "made" ELSE "failed"]
    /\ UNCHANGED Handled

\* HttpClient.Do(req) by the handle New returned to g.
HttpClientDo(g) ==
    /\ client.pc[g] = "made"
    /\ client' = [client EXCEPT !.does[g] = client.HttpClient]
    /\ UNCHANGED Handled

NextClient ==
    \/ \E g \in Goroutines : initMtxLock(g)
    \/ \E g \in Goroutines : initClientTest(g)
    \/ \E g \in Goroutines : DefaultClient(g)
    \/ \E g \in Goroutines : initMtxUnlock(g)
    \/ \E g \in Goroutines : HttpClientDo(g)

SpecClient == InitClient /\ [][NextClient]_vars

\* ------------------------------------------------------------------ C25
\* C25: however the New calls interleave, google.DefaultClient returns a
\* client at most once, none is built once HttpClient is set, every
\* handle makes its requests with the one client HttpClient holds, and a
\* client the application has set is never replaced.
C25_OneClient ==
    /\ client.built <= 1
    /\ client.built = 1 => client.HttpClient = Default(1)
    /\ \A g \in Goroutines :
          /\ client.pc[g] = "made" => client.HttpClient # "nil"
          /\ client.does[g] \in {"none", client.HttpClient}
          /\ client.pc[g] = "DefaultClient"
                 => \A k \in Goroutines : client.pc[k] # "made"
    /\ (\E g \in Goroutines : client.does[g] = "injected")
           => (client.HttpClient = "injected" /\ client.built = 0)

\* The first New failed to build the client, the second built it, and two
\* handles have made requests with it.
C25_BuiltOnceAfterFailure ==
    \E g, k, j \in Goroutines :
        /\ g # k /\ k # j /\ g # j
        /\ client.pc[g] = "failed"
        /\ client.does[k] = Default(1) /\ client.does[j] = Default(1)
        /\ client.built = 1 /\ client.initMtx = 0

\* ------------------------------------------------------------------ C26
\* C26: comparing a handle when a call returns with the handle as the call
\* found it, it has become Held only if the call was a Lock, TryLock or
\* Adopt that returned success, it has become Unheld only if the call was
\* an Unlock that returned success, and it is as it was whenever the call
\* returned an error or false; outside of calls only Abandon changes it,
\* from Held to Unheld.
C26_StateMachine ==
    [][\A h \in Handles :
          /\ Returns(h)
             => LET was == before[h] # ""
                    success == ret'[h] \in {"nil", "true"}
                IN  /\ (~was /\ Held(h)')
                           => (op[h] \in {"Lock", "TryLock", "Adopt", "AdoptData"}
                               /\ success)
                    /\ (was /\ ~Held(h)') => (op[h] = "Unlock" /\ success)
                    /\ ~success => (Held(h)' <=> was)
          /\ (pc[h] = "idle" /\ pc'[h] = "idle" /\ generation'[h] # generation[h])
             => (op'[h] = "Abandon" /\ Held(h) /\ ~Held(h)')]_vars

\* =============================================================== takeover
\* NumAcquirers handles made with one positive TTL; each calls Lock or
\* TryLock once and nobody unlocks, extends or abandons: a lock, once
\* taken, is left to expire and the others contend for it. The store
\* answers truthfully and its clock runs.
InitTakeover ==
    /\ \E n \in TTLs \ {0} :
          New(1..NumAcquirers, [h \in 1..NumAcquirers |-> n * Second])
    /\ AtRest

NextTakeover ==
    \/ \E h \in Handles : op[h] = "New" /\ CallLockData(h, "")
    \/ \E h \in Handles : op[h] = "New" /\ CallTryLockData(h, "")
    \/ \E h \in Handles : LockData(h, Truthful)
    \/ \E h \in Handles : TryLockData(h, Truthful)
    \/ \E h \in Handles : wait(h)
    \/ Tick

SpecTakeover == InitTakeover /\ [][NextTakeover]_vars

\* ------------------------------------------------------------------ C27
\* C27: a Lock or TryLock whose inspection is answered 404 goes on to
\* create with the generation the store reported as its precondition ("0"
\* when it reported none). A create whose precondition matches succeeds,
\* and from then on the precondition of every contender that was about to
\* create with the same one no longer matches; a create whose precondition
\* does not match is answered 412, changes nothing and sends its caller
\* back to inspecting. So of two contenders that saw the same expired
\* object, or both saw none, exactly one acquires.
C27_TakeoverRace ==
    [][\A h \in Handles :
          /\ (op[h] \in {"Lock", "TryLock"} /\ pc[h] = "inspect"
              /\ Requests(h) /\ lastStatus'[h] = StatusNotFound)
             => (/\ pc'[h] = "create"
                 /\ expect'[h] = Headers.generation
                 /\ IfGenerationMatch(h)' =
                        (IF object.exists THEN FormatInt(object.generation)
                         ELSE "0"))
          /\ (op[h] \in {"Lock", "TryLock"} /\ pc[h] = "create" /\ Requests(h))
             => IF GenerationMatch(IfGenerationMatch(h))
                THEN /\ lastStatus'[h] = StatusOK /\ Held(h)'
                     /\ \A k \in Handles \ {h} :
                           (pc[k] = "create"
                            /\ IfGenerationMatch(k) = IfGenerationMatch(h))
                           => ~GenerationMatch(IfGenerationMatch(k))'
                ELSE /\ lastStatus'[h] = StatusPreconditionFailed
                     /\ pc'[h] = "inspect" /\ ~Held(h)'
                     /\ object' = object]_vars

\* Two contenders saw the lock expired at generation 1; one took it over,
\* to generation 2, the other was answered 412 and is back at inspecting.
C27_LostTheRace ==
    \E h, k \in Handles :
        /\ h # k
        /\ op[h] \in {"Lock", "TryLock"} /\ pc[h] = "idle"
        /\ generation[h] = "2" /\ Current(h)
        /\ op[k] \in {"Lock", "TryLock"} /\ pc[k] = "inspect"
        /\ expect[k] = "1" /\ lastStatus[k] = StatusPreconditionFailed

\* ================================================================= oracle
\* expired applied alone to the headers of an answer: Date, Last-Modified
\* and x-goog-expiration each missing, garbled or a time; x-goog-meta-ttl
\* missing, garbled or the decimal text of any int64.
HeaderTimes == {"", "yesterday"} \cup DOMAIN Dates
HeaderTTLs == {"", "forever"} \cup DOMAIN Decimals

Answers ==
    [StatusCode : {StatusOK}, Date : HeaderTimes, LastModified : HeaderTimes,
     Expiration : {"", TimeFormat(0)}, ttl : HeaderTTLs, generation : {"1"}]

Unprobed == <<generation, ttl, object, lastGen, now, op, pc, expect, arg, data,
           sink, ret, lastStatus, lastErr, sent, calls, ctx, before, duration,
           lost, abandoned, client, backoff>>

InitOracle ==
    /\ New({}, <<>>)
    /\ client = TestClient
    /\ backoff = ZeroBackOff
    /\ \E res \in Answers :
          probe = [fn |-> "expired", res |-> res, done |-> FALSE, result |-> FALSE]

ApplyExpired ==
    /\ probe.fn = "expired"
    /\ ~probe.done
    /\ probe' = [probe EXCEPT !.done = TRUE, !.result = expired(probe.res)]
    /\ UNCHANGED Unprobed

NextOracle == ApplyExpired

SpecOracle == InitOracle /\ [][NextOracle]_vars

\* ------------------------------------------------------------------ C28
\* C28: expired answers true exactly when x-goog-meta-ttl is the text of an
\* integer T > 0, Date that of a time N, Last-Modified that of a time M,
\* and M + T < N in seconds; whatever x-goog-expiration says.
C28_ExpiredOracle ==
    probe.done
    => LET T == ParseInt(probe.res.ttl)
           N == ParseTime(probe.res.Date)
           M == ParseTime(probe.res.LastModified)
       IN  probe.result <=> (/\ T.ok /\ T.n > 0 /\ N.ok /\ M.ok
                             /\ M.n + T.n < N.n)

\* ============================================================= classifier
\* retriable applied alone to a status and an error: every status the
\* package names, or none, with no transport error or any kind of one.
Statuses ==
    {0, StatusOK, StatusNoContent, StatusForbidden, StatusNotFound,
     StatusRequestTimeout, StatusPreconditionFailed, StatusTooManyRequests,
     StatusInternalServerError, StatusBadGateway, StatusServiceUnavailable,
     StatusGatewayTimeout}

Errors == {"nil", "temporary", "timeout", "refused", Canceled, DeadlineExceeded}

InitClassifier ==
    /\ New({}, <<>>)
    /\ client = TestClient
    /\ backoff = ZeroBackOff
    /\ \E status \in Statuses, err \in Errors :
          probe = [fn |-> "retriable", status |-> status, err |-> err,
                   done |-> FALSE, result |-> FALSE]

ApplyRetriable ==
    /\ probe.fn = "retriable"
    /\ ~probe.done
    /\ probe' = [probe EXCEPT !.done = TRUE,
                              !.result = retriable(probe.status, probe.err)]
    /\ UNCHANGED Unprobed

NextClassifier == ApplyRetriable

SpecClassifier == InitClassifier /\ [][NextClassifier]_vars

\* ------------------------------------------------------------------ C29
\* C29: without a transport error an outcome is transient exactly when its
\* status is 408, 429, 500, 502, 503 or 504; with a transport error it is
\* transient exactly when the error is temporary or a timeout, whatever
\* the status.
C29_Classifier ==
    probe.done
    => IF probe.err = "nil"
       THEN probe.result <=> probe.status \in {408, 429, 500, 502, 503, 504}
       ELSE probe.result <=> (Temporary(probe.err) \/ Timeout(probe.err))

\* A transport error that is neither temporary nor a timeout was classified
\* with a status that alone would be transient: not transient.
C29_ErrorDecides ==
    /\ probe.done /\ probe.err = "refused"
    /\ probe.status = StatusServiceUnavailable /\ ~probe.result

\* ================================================================ backoff
\* One operation's backoff timer, linear or exponential, zero as declared,
\* and wait called on it up to MaxWaits times; each wait draws its delay.
InitBackOff ==
    /\ New({}, <<>>)
    /\ client = TestClient
    /\ probe = NoProbe
    /\ \E kind \in {"linBackOff", "expBackOff"} :
          backoff = [kind |-> kind, time |-> Zero, k |-> 0, delay |-> Zero]

Unwaited == <<generation, ttl, object, lastGen, now, op, pc, expect, arg, data,
              sink, ret, lastStatus, lastErr, sent, calls, ctx, before,
              duration, lost, abandoned, client, probe>>

\* The clamps both timers end with.
Clamp(t) ==
    LET floored == IF Less(t, backOffMin) THEN backOffMin ELSE t
    IN  IF Less(backOffMax, floored) THEN backOffMax ELSE floored

\* rand.Int63n(n) answers some d with 0 <= d < n: here the least, the
\* greatest or the middle one.
Int63n(n) ==
    {Zero, Half(n),
     IF n.ns > 0 THEN Long(n.s, n.ns - 1) ELSE Long(n.s - 1, PerSecond - 1)}

\* The wait of a timer that is at time, now at the time next.
Waiting(next) ==
    /\ backoff.k < MaxWaits
    /\ \E delay \in Int63n(next) :
          backoff' = [backoff EXCEPT !.time = next, !.k = @ + 1, !.delay = delay]
    /\ UNCHANGED Unwaited

linBackOffWait ==
    /\ backoff.kind = "linBackOff"
    /\ Waiting(Clamp(Plus(backoff.time, backOffMin)))

\* expBackOff.wait doubling its time.
expBackOffWaitDoubles ==
    /\ backoff.kind = "expBackOff"
    /\ Waiting(Clamp(Plus(backoff.time, backoff.time)))

expBackOffWait ==
    /\ backoff.kind = "expBackOff"
    /\ Waiting(Clamp(Plus(backoff.time, Half(backoff.time))))

NextBackOff == linBackOffWait \/ expBackOffWait

SpecBackOff == InitBackOff /\ [][NextBackOff]_vars

\* The lesser of two backoff times.
Least(a, b) == IF Less(b, a) THEN b ELSE a

\* ------------------------------------------------------------------ C30
\* C30: the window of the k-th wait of a linear timer is the lesser of 30 s
\* and k times 50 ms; that of an exponential timer is 50 ms at the first
\* wait and then the lesser of 30 s and three halves of the window before,
\* rounded down to the nanosecond; a window is never under 50 ms nor over
\* 30 s nor under the window before, and the delay drawn is at least 0 and
\* under the window.
C30_Windows ==
    [][backoff'.k = backoff.k + 1
       => LET w == backoff'.time
              k == backoff'.k
              old == backoff.time
          IN  /\ backoff.kind = "linBackOff"
                     => w = Least(backOffMax, Long((50 * k) \div 1000,
                                                   ((50 * k) % 1000) * Millisecond))
              /\ backoff.kind = "expBackOff"
                     => w = IF k = 1 THEN backOffMin
                            ELSE Least(backOffMax, Half(Plus(old, Plus(old, old))))
              /\ ~Less(w, backOffMin) /\ ~Less(backOffMax, w)
              /\ ~Less(w, old)
              /\ ~Less(backoff'.delay, Zero) /\ Less(backoff'.delay, w)]_vars

\* An exponential timer reached the cap at its 17th wait, and the delay
\* drawn then was the longest, a nanosecond under 30 s.
C30_Capped ==
    /\ backoff.kind = "expBackOff" /\ backoff.k = 17
    /\ backoff.time = backOffMax
    /\ backoff.delay = Long(29, PerSecond - 1)

\* ------------------------------------------------------------------ C31
\* C31: when Lock, TryLock, Extend, Update or Adopt returns success, the
\* step that returns is the conditional write the store applied, the
\* handle's generation is the one the object got in it, and for Extend,
\* Update and Adopt it is not the generation the write carried.
C31_GenerationIsTheStores ==
    [][\A h \in Handles :
          (/\ op[h] \in {"Lock", "TryLock", "Extend", "Update", "Adopt", "AdoptData"}
           /\ Returns(h) /\ ret'[h] \in {"nil", "true"})
          => (/\ object' # object /\ object'.exists
              /\ object'.generation = lastGen'
              /\ generation'[h] = FormatInt(object'.generation)
              /\ op[h] \notin {"Lock", "TryLock"}
                     => generation'[h] # generation[h])]_vars

\* An Update returned nil: the handle that held generation 1 is at
\* generation 2, the object's.
C31_UpdatedGeneration ==
    \E h \in Handles :
        /\ op[h] = "Update" /\ pc[h] = "idle" /\ ret[h] = "nil"
        /\ lastStatus[h] = StatusOK
        /\ generation[h] = "2" /\ object.exists /\ object.generation = 2

\* ------------------------------------------------------------------ C32
\* C32: an Extend that returns success leaves the object's payload as it
\* was, so that an Inspect reads after it the bytes one read before it (of
\* an object already past its ttl an Inspect reads nothing); the
\* object is last modified at the moment of the Extend, carries the ttl the
\* handle has then, and has a generation the store never issued before.
C32_ExtendKeepsPayload ==
    [][\A h \in Handles :
          (/\ op[h] \in {"Extend", "Adopt"}
           /\ Returns(h) /\ ret'[h] = "nil")
          => (/\ object.exists /\ object'.exists
              /\ object'.data = object.data
              /\ inspectObject(h, TRUE, "ok").res.status = StatusOK
                     => inspectObject(h, TRUE, "ok").body = object.data
              /\ inspectObject(h, TRUE, "ok").res.status' = StatusOK
              /\ inspectObject(h, TRUE, "ok").body' = object.data
              /\ object'.modified = 0 /\ now' = 0
              /\ object'.ttl = FormatInt(ttl[h])
              /\ object'.generation > lastGen
              /\ object'.generation # object.generation)]_vars

\* A handle extended an object that holds "hello" and another handle, of
\* another TTL, had written: the payload is there, the ttl is the
\* extender's.
C32_ExtendedWithPayload ==
    \E h, g \in Handles :
        /\ op[h] \in {"Extend", "Adopt"} /\ pc[h] = "idle" /\ ret[h] = "nil"
        /\ object.exists /\ object.data = "hello"
        /\ object.generation > 2
        /\ ttl[g] # ttl[h]
        /\ object.ttl = FormatInt(ttl[h])
        /\ generation[h] = FormatInt(object.generation)

\* ------------------------------------------------------------------ C33
\* C33: every PUT of Lock, TryLock and Update sends the whole payload the
\* caller passed, the PUTs made after a 412 or a transient answer too, and
\* the object a successful call leaves holds that payload.
C33_EveryPutCarriesPayload ==
    [][\A h \in Handles :
          (/\ op[h] \in {"Lock", "TryLock", "Update"}
           /\ pc[h] = "create" /\ Requests(h))
          => (/\ data[h] = arg[h]
              /\ ret'[h] \in {"nil", "true"}
                     => (object'.exists /\ object'.data = arg[h]))]_vars

\* ------------------------------------------------------------------ C34
\* C34: Unlock, Extend and Update return the stale-lock error only of a
\* lock that was lost: the object is no longer at the handle's generation
\* because another handle's request replaced or deleted it, never because
\* the store applied a request of this very call.
C34_StaleOnlyWhenLost ==
    [][\A h \in Handles :
          (/\ op[h] \in {"Unlock", "Extend", "Update"}
           /\ Returns(h) /\ ret'[h] = "stale")
          => (~Current(h) /\ lost[h] = NoneLost)]_vars

\* ============================================================== adoption
\* Two handles on one URL whose callers hand the lock over: every id
\* passed to Adopt or AdoptData is one that Abandon returned and that no
\* caller has passed on before. The store answers truthfully and the
\* clock runs.
NextAdoption ==
    \/ \E h \in Handles : MayCallLifecycle /\ CallLockData(h, "")
    \/ \E h \in Handles : MayCallLifecycle /\ CallTryLockData(h, "")
    \/ \E h \in Handles : MayCallLifecycle /\ CallUnlock(h)
    \/ \E h \in Handles : MayCallLifecycle /\ CallExtend(h)
    \/ \E h \in Handles : MayCallLifecycle /\ CallUpdateData(h, "hello")
    \/ \E h \in Handles : MayCallLifecycle /\ Abandon(h)
    \/ \E h \in Handles, id \in abandoned : MayCallLifecycle /\ CallAdopt(h, id)
    \/ \E h \in Handles, id \in abandoned :
          MayCallLifecycle /\ CallAdoptData(h, id, "hello")
    \/ \E h \in Handles : LockData(h, Truthful)
    \/ \E h \in Handles : TryLockData(h, Truthful)
    \/ \E h \in Handles : Unlock(h, Truthful)
    \/ \E h \in Handles : Extend(h, Truthful)
    \/ \E h \in Handles : UpdateData(h, Truthful)
    \/ \E h \in Handles : wait(h)
    \/ Tick

SpecAdoption == Init /\ [][NextAdoption]_vars

\* ------------------------------------------------------------------ C35
\* C35: when every id passed to Adopt is one Abandon returned and is
\* passed once, at most one handle is ever at the generation the remote
\* object is at; any other Held handle is stale, and each conditional PUT
\* or DELETE it sends is rejected, the object left as it was.
C35_OneCurrentOthersRejected ==
    /\ [](Cardinality({h \in Handles : Held(h) /\ Current(h)}) <= 1)
    /\ [][\A h \in Handles :
             (Held(h) /\ ~Current(h) /\ Writes(h))
             => (/\ object' = object /\ lastGen' = lastGen
                 /\ lastStatus'[h] \notin {StatusOK, StatusNoContent}
                 /\ ret'[h] \notin {"nil", "true"})]_vars

\* A handle abandoned its lock and, the lock expired, locked again; the
\* other then adopted the abandoned id: its PUT was answered 412, and it is
\* Held at the generation the object has left while the first is current.
C35_AdopterRejected ==
    \E h, k \in Handles :
        /\ h # k
        /\ op[h] \in {"Adopt", "AdoptData"} /\ pc[h] = "idle" /\ ret[h] = "stale"
        /\ lastStatus[h] = StatusPreconditionFailed /\ sent[h] = {"PUT"}
        /\ Held(h) /\ ~Current(h)
        /\ Held(k) /\ Current(k)

\* ================================================================== race
\* One handle locks and abandons; the callers of all the other handles,
\* each Unheld, pass the id it returned to Adopt, in any order and at any
\* pace. The store answers truthfully or with a transient status, and the
\* clock runs.
Adopters == Handles \ {1}

NextRace ==
    \/ op[1] = "New" /\ CallLockData(1, "hello")
    \/ LockData(1, Truthful \cup Transient)
    \/ op[1] = "Lock" /\ Abandon(1)
    \/ \E h \in Adopters :
          op[1] = "Abandon" /\ op[h] = "New" /\ CallAdopt(h, ret[1])
    \/ \E h \in Adopters : Extend(h, Truthful \cup Transient)
    \/ \E h \in Handles : wait(h)
    \/ Tick

SpecRace == InitContention /\ [][NextRace]_vars

\* ------------------------------------------------------------------ C36
\* C36: of the Unheld handles that Adopt one abandoned id, however their
\* calls interleave, at most one returns success; every other one that
\* returns, returns the stale-lock error.
C36_OneAdopterWins ==
    /\ Cardinality({h \in Adopters : op[h] = "Adopt" /\ pc[h] = "idle"
                                     /\ ret[h] = "nil"}) <= 1
    /\ \A h \in Adopters :
          (op[h] = "Adopt" /\ pc[h] = "idle") => ret[h] \in {"nil", "stale"}

\* Two handles adopted the abandoned id "1": one returned nil and is at
\* generation 2, the other was answered 412 and returned stale-lock.
C36_SecondCallerWon ==
    \E h, k \in Adopters :
        /\ h # k /\ op[h] = "Adopt" /\ op[k] = "Adopt"
        /\ pc[h] = "idle" /\ pc[k] = "idle"
        /\ ret[h] = "nil" /\ generation[h] = "2" /\ Current(h)
        /\ ret[k] = "stale" /\ generation[k] = "1"
        /\ lastStatus[k] = StatusPreconditionFailed
        /\ object.data = "hello"

\* ================================================================= stale
\* Two handles with one positive TTL. Each locks once; a handle that has
\* locked then calls Unlock, Extend, Update and Abandon in any order,
\* whether or not its lock has expired and been taken over. The store
\* answers truthfully or with a transient status, and the clock runs.
NextStale ==
    \/ \E h \in Handles : op[h] = "New" /\ CallLockData(h, "")
    \/ \E h \in Handles : MayCallLifecycle /\ CallUnlock(h)
    \/ \E h \in Handles : MayCallLifecycle /\ CallExtend(h)
    \/ \E h \in Handles : MayCallLifecycle /\ CallUpdateData(h, "hello")
    \/ \E h \in Handles : MayCallLifecycle /\ Abandon(h)
    \/ \E h \in Handles : LockData(h, Truthful \cup {"unavailable"})
    \/ \E h \in Handles : Unlock(h, Truthful \cup {"unavailable"})
    \/ \E h \in Handles : Extend(h, Truthful \cup {"unavailable"})
    \/ \E h \in Handles : UpdateData(h, Truthful \cup {"unavailable"})
    \/ \E h \in Handles : wait(h)
    \/ Tick

SpecStale == InitExpiration /\ [][NextStale]_vars

\* The step in which the caller of h calls Abandon.
Abandons(h) == pc[h] = "idle" /\ op'[h] = "Abandon" /\ calls' = calls + 1

\* ------------------------------------------------------------------ C37
\* C37: an Unlock, Extend or Update that returns the stale-lock error
\* leaves the handle Held at a generation the object is not at; until the
\* handle is abandoned it stays so, whatever any handle does, because the
\* store never brings the object back to that generation; and of such a
\* handle no request changes the object and no Unlock, Extend or Update
\* returns success.
C37_StaleForGood ==
    [][\A h \in Handles :
          /\ (/\ op[h] \in {"Unlock", "Extend", "Update"}
              /\ Returns(h) /\ ret'[h] = "stale")
             => (Held(h)' /\ ~Current(h)')
          /\ (Held(h) /\ ~Current(h) /\ ~Abandons(h))
             => (/\ generation'[h] = generation[h]
                 /\ Held(h)' /\ ~Current(h)')
          /\ (Held(h) /\ ~Current(h) /\ Requests(h))
             => (object' = object /\ lastGen' = lastGen)
          /\ (/\ Held(h) /\ ~Current(h) /\ Returns(h)
              /\ op[h] \in {"Unlock", "Extend", "Update"})
             => ret'[h] \notin {"nil", "none"}]_vars

\* The lock of a handle expired and the other handle took it over; the
\* first was told stale-lock by one call and again by its Update, the
\* fourth call in all: it is at generation 1, the object at 2.
C37_ToldStaleAgain ==
    \E h, k \in Handles :
        /\ h # k /\ calls = 4
        /\ op[k] = "Lock" /\ pc[k] = "idle" /\ ret[k] = "nil" /\ Current(k)
        /\ object.generation = 2
        /\ op[h] = "Update" /\ pc[h] = "idle" /\ ret[h] = "stale"
        /\ generation[h] = "1"

\* ================================================================== lost
\* Two handles, any TTLs, each calling Lock once at most. The store
\* answers truthfully, except that it may apply a request and lose the
\* answer, once per call; the clock keeps running, and so does a call once
\* made.
NextLost ==
    \/ \E h \in Handles : op[h] = "New" /\ CallLockData(h, "")
    \/ \E h \in Handles : LockData(h, Flaky(h) \ {"unavailable"})
    \/ \E h \in Handles : wait(h)
    \/ Tick

RunningLost(h) == LockData(h, Truthful) \/ wait(h)

SpecLost ==
    /\ Init /\ [][NextLost]_vars
    /\ WF_vars(Tick)
    /\ \A h \in {1, 2} : WF_vars(RunningLost(h))

\* The object is the one the store made of a PUT of h's running call
\* whose answer was lost, and no other handle has called.
OwnUnanswered(h) ==
    /\ op[h] = "Lock" /\ pc[h] # "idle"
    /\ lost[h] # NoneLost /\ object = lost[h].object
    /\ Alone(h)

\* ------------------------------------------------------------------ C38
\* C38: a Lock whose conditional create the store applied, the answer
\* lost, with no other handle about, does not back off on finding its own
\* object, and returns nil in the end, whatever the TTL.
C38_LostCreateAcquires ==
    /\ [][\A h \in Handles :
             (OwnUnanswered(h) /\ pc[h] = "inspect" /\ Requests(h)
              /\ lastStatus'[h] = StatusOK)
             => pc'[h] # "wait"]_vars
    /\ \A h \in {1, 2} : OwnUnanswered(h) ~> (InCS(h) \/ ~Alone(h))

====
